---------------------------- MODULE Spec2Model ----------------------------
(***************************************************************************)
(* Model of the easy-network relationship manager: the attention           *)
(* classifier (hooks/useContacts.ts), the layer-drift rule and radial      *)
(* layout of NetworkGraph, and the contact / conversation data layer.      *)
(*                                                                         *)
(* Time is counted in seconds (the source counts milliseconds; the factor  *)
(* 1000 is dropped on both sides of every division).  A missing timestamp  *)
(* (null) is NULL.  Fractions are kept exact by scaling: a threshold       *)
(* `days * 0.8` is held in tenths of a day.                                *)
(***************************************************************************)
EXTENDS Integers, Sequences, FiniteSets, TLC

VARIABLES
    \* ---- attention classifier applied to one contact row
    clsContact,          \* the row handed to calculateNeedsAttention
    clsNow,              \* the clock read by `new Date()`
    clsPc,               \* "idle" | "fresh" | "stale": state of the last result
    clsNeedsAttention,   \* the last value calculateNeedsAttention returned
    \* ---- NetworkGraph (radial layout)
    mounted,             \* whether Index currently renders <NetworkGraph>
    contacts,            \* props.contacts: the list of Contact objects
    contactAngles,       \* useState: contact id -> angle set by dragging
    positioned,          \* the value of the positionedContacts memo
    renders,             \* how many times the layout has been computed
    lastDrag,            \* history: id -> the last handleAngleChange for it
    lastOp,              \* history: the handler that ran last
    \* ---- data layer (storage backend, React Query cache, mutations)
    wallClock,           \* the wall clock read by `new Date()`
    user,                \* supabase.auth.getUser(): the user id, or NoUser
    contactsTable,       \* table contacts: id -> row
    conversationsTable,  \* table conversations: the rows, in insertion order
    contactsQuery,       \* the cache entry of query ['contacts']
    convMutation,        \* the createConversation call in flight
    lastLog,             \* history: contact id -> its last fully successful log
    \* ---- opportunities (table, query cache, hooks) and the action panel
    oppTable,            \* table opportunities: id -> row
    oppNextId,           \* the next id gen_random_uuid() hands out
    oppQuery,            \* the cache entry of query ['opportunities']
    oppCall,             \* the last opportunity mutation and how it ended
    toast,               \* the notification shown last
    panelMounted,        \* whether ActionOverviewPanel is mounted
    dismissedIds,        \* useState: the ids dismissed in the panel
    generatingFor,       \* useState: <<>> or <<the item a message is generated for>>
    generatedMessages,   \* useState: the items that have a generated message
    panelPc,             \* the handleComplete call in flight, if any
    unhandledRejection,  \* the handler whose promise rejected with nobody catching it
    \* ---- LogConversationDialog and its voice recorder
    selectedContact,     \* Index useState: the selected contact id, or "null"
    showLogConversation, \* Index useState: the dialog's `open` prop
    recorders,           \* per mounted dialog instance: the useVoiceRecorder state
    tracks,              \* media stream -> "live" | "ended"
    recToast,            \* the title of the recorder's last notification
    \* ---- the edge functions
    apiKeyConfigured,    \* Deno.env: LOVABLE_API_KEY is set
    edgeRequest,         \* the request being served, and how far its handler is
    edgeResponse,        \* the Response the last handler returned
    upstreamCalls,       \* fetches made to the chat-completion gateway
    \* ---- one call of seededRandom
    hashSeed,            \* the argument `seed`
    hashI,               \* the loop index `i`
    hashAcc,             \* the local `hash`
    hashPc,              \* "loop" | "returned"
    hashResult,          \* the value returned
    \* ---- useDeleteConversation
    delMutation,         \* the deleteConversation mutation: its status and arguments
    conversationsStale,  \* contact ids whose ['conversations', id] query is invalidated
    \* ---- one ContactNode and the mouse
    nodePc,              \* "idle" | "pressed" | "released" (mouseup done, click not yet)
    pointer,             \* clientX, clientY of the mouse
    startPos,            \* startX, startY of the closure handleMouseDown made
    hasDraggedRef,       \* hasDraggedRef.current
    isDragging,          \* useState isDragging
    docListeners,        \* the event types this node listens to on document
    currentPos,          \* useState currentX, currentY, as angle and radius
    angleCalls,          \* the angles onAngleChange was called with since mousedown
    onClickCalls,        \* the calls of onClick since mousedown
    maxDelta,            \* the largest distance on an axis from the press point so far
    nodeMoves,           \* mousemove events since mousedown
    \* ---- NetworkChatInterface
    messages,            \* useState messages
    input,               \* useState input, a sequence of characters
    isLoading,           \* useState isLoading
    searchInFlight,      \* search-contacts calls not yet settled
    sendCalls            \* calls of handleSend so far

clsVars == <<clsContact, clsNow, clsPc, clsNeedsAttention>>

graphVars == <<mounted, contacts, contactAngles, positioned, renders, lastDrag, lastOp>>

dataVars == <<wallClock, user, contactsTable, conversationsTable, contactsQuery,
              convMutation, lastLog>>

oppVars == <<oppTable, oppNextId, oppQuery, oppCall, toast, panelMounted, dismissedIds,
             generatingFor, generatedMessages, panelPc, unhandledRejection>>

\* the state outside the classifier, the graph and the contact data layer
recVars == <<selectedContact, showLogConversation, recorders, tracks, recToast>>

edgeVars == <<apiKeyConfigured, edgeRequest, edgeResponse, upstreamCalls>>

hashVars == <<hashSeed, hashI, hashAcc, hashPc, hashResult>>

\* the machines added last, framed together
delVars == <<delMutation, conversationsStale>>

nodeVars == <<nodePc, pointer, startPos, hasDraggedRef, isDragging, docListeners,
              currentPos, angleCalls, onClickCalls, maxDelta, nodeMoves>>

chatVars == <<messages, input, isLoading, searchInFlight, sendCalls>>

lateVars == <<nodeVars, chatVars>>

extraVars == <<hashVars, delVars, lateVars>>

otherVars == <<oppVars, recVars, edgeVars, extraVars>>

vars == <<clsContact, clsNow, clsPc, clsNeedsAttention,
          mounted, contacts, contactAngles, positioned, renders, lastDrag, lastOp,
          wallClock, user, contactsTable, conversationsTable, contactsQuery,
          convMutation, lastLog,
          oppTable, oppNextId, oppQuery, oppCall, toast, panelMounted, dismissedIds,
          generatingFor, generatedMessages, panelPc, unhandledRejection,
          selectedContact, showLogConversation, recorders, tracks, recToast,
          apiKeyConfigured, edgeRequest, edgeResponse, upstreamCalls,
          hashSeed, hashI, hashAcc, hashPc, hashResult,
          delMutation, conversationsStale,
          nodePc, pointer, startPos, hasDraggedRef, isDragging, docListeners,
          currentPos, angleCalls, onClickCalls, maxDelta, nodeMoves,
          messages, input, isLoading, searchInFlight, sendCalls>>

-----------------------------------------------------------------------------
(* Bounds of the model *)

\* days covered by the classifier's clock (the yearly threshold is day 292)
MaxDay == 293

\* layout computations followed in one run of the graph
MaxRenders == 3

\* steps of the data layer's clock
MaxTicks == 3

\* rows the conversations table can hold
MaxConversations == 2

\* how many opportunity rows are ever inserted
MaxOpps == 2

\* how many two-day steps the clock makes while the opportunities are exercised
MaxOppTicks == 1

\* how many times the log-conversation dialog is mounted
MaxMounts == 2

\* how many media streams getUserMedia hands out
MaxStreams == 2

\* how many entries of sampleOpportunities the seed inserts in this model
MaxSamples == 1

-----------------------------------------------------------------------------
(* Program constants *)

NULL == -1

\* 1000 * 60 * 60 * 24 milliseconds, in seconds
DayLen == 60 * 60 * 24

LAYER_ORDER == <<"vip", "inner", "regular", "occasional", "distant">>

Layers == {LAYER_ORDER[i] : i \in 1..Len(LAYER_ORDER)}

\* the frequency table: value -> target day count
FREQUENCY_OPTIONS ==
    << [value |-> "weekly",    days |-> 7],
       [value |-> "biweekly",  days |-> 14],
       [value |-> "monthly",   days |-> 30],
       [value |-> "quarterly", days |-> 90],
       [value |-> "yearly",    days |-> 365] >>

\* the tags the add-contact form accepts for contact_frequency
FrequencyTags == {"none", "weekly", "biweekly", "monthly", "quarterly", "yearly"}

KnownTags == {FREQUENCY_OPTIONS[i].value : i \in 1..Len(FREQUENCY_OPTIONS)}

-----------------------------------------------------------------------------
(* calculateNeedsAttention *)

\* FREQUENCY_OPTIONS.find(f => f.value === tag): index of the first match, 0 if none
FindFrequency(tag) ==
    LET hits == {i \in 1..Len(FREQUENCY_OPTIONS) : FREQUENCY_OPTIONS[i].value = tag}
    IN  IF hits = {} THEN 0 ELSE CHOOSE i \in hits : \A j \in hits : i <= j

\* mutant: Math.round in place of Math.floor
DaysSinceContact_round(last, now) == (2 * (now - last) + DayLen) \div (2 * DayLen)

\* Math.floor((now - lastContact) / one day)
DaysSinceContact(last, now) == (now - last) \div DayLen

\* frequencyConfig ? frequencyConfig.days * 0.8 : 30, in tenths of a day
ThresholdTenths(tag) ==
    LET k == FindFrequency(tag)
    IN  IF k # 0 THEN FREQUENCY_OPTIONS[k].days * 8 ELSE 30 * 10

\* mutant: a 'none' cadence is never flagged, checked before the null test
calculateNeedsAttention_noneFirst(contact, now) ==
    IF contact.contact_frequency = "none"
    THEN FALSE
    ELSE IF contact.last_contact_at = NULL
    THEN TRUE
    ELSE DaysSinceContact(contact.last_contact_at, now) * 10
            >= ThresholdTenths(contact.contact_frequency)

\* mutant: strict comparison `>` in place of `>=`
calculateNeedsAttention_strict(contact, now) ==
    IF contact.last_contact_at = NULL
    THEN TRUE
    ELSE DaysSinceContact(contact.last_contact_at, now) * 10
            > ThresholdTenths(contact.contact_frequency)

calculateNeedsAttention(contact, now) ==
    IF contact.last_contact_at = NULL
    THEN TRUE
    ELSE DaysSinceContact(contact.last_contact_at, now) * 10
            >= ThresholdTenths(contact.contact_frequency)

-----------------------------------------------------------------------------
(* types/contact.ts: the rings *)

LAYER_CONFIG ==
    [l \in Layers |->
        CASE l = "vip"        -> [radius |-> 80]
          [] l = "inner"      -> [radius |-> 160]
          [] l = "regular"    -> [radius |-> 240]
          [] l = "occasional" -> [radius |-> 320]
          [] l = "distant"    -> [radius |-> 400]]

\* Array.prototype.indexOf: zero-based, -1 when absent
IndexOf(seq, x) ==
    LET hits == {i \in 1..Len(seq) : seq[i] = x}
    IN  IF hits = {} THEN -1 ELSE (CHOOSE i \in hits : \A j \in hits : i <= j) - 1

\* seq[i] of a JavaScript array: "undefined" outside the array
At(seq, i) == IF i \in 0..(Len(seq) - 1) THEN seq[i + 1] ELSE "undefined"

-----------------------------------------------------------------------------
(* seededRandom: a 32-bit string hash folded through abs(sin(.)) *)

MaxInt32 == 2147483647

\* String.prototype.charCodeAt for the characters ids are built from
charCodeAt(ch) ==
    CASE ch = "0" -> 48
      [] ch = "2" -> 50
      [] ch = "3" -> 51
      [] ch = "7" -> 55
      [] ch = "a" -> 97
      [] ch = "b" -> 98
      [] ch = "c" -> 99
      [] ch = "d" -> 100
      [] ch = "e" -> 101
      [] ch = "i" -> 105
      [] ch = "r" -> 114
      [] ch = "s" -> 115
      [] ch = "u" -> 117

\* hash << 5 on a signed 32-bit integer
Shl5(h) ==
    LET low == h % 134217728
    IN  IF low >= 67108864 THEN (low - 134217728) * 32 ELSE low * 32

\* a - b, wrapped to a signed 32-bit integer
Sub32(a, b) ==
    IF a >= 0 /\ b < 0
    THEN LET t == (a - MaxInt32) - 1
         IN  IF t >= b THEN ((t - b) - MaxInt32) - 1 ELSE a - b
    ELSE IF a < 0 /\ b >= 0
    THEN LET t == (a + MaxInt32) + 1
         IN  IF t < b THEN ((t - b) + MaxInt32) + 1 ELSE a - b
    ELSE a - b

\* a + c for a char code c >= 0, wrapped to a signed 32-bit integer
Add32(a, c) ==
    IF a > MaxInt32 - c THEN ((a - MaxInt32) - 1) + ((c - MaxInt32) - 1) ELSE a + c

\* mutant: the subtraction is dropped, hash = (hash << 5) + char
HashStep_noSub(hash, char) == Add32(Shl5(hash), char)

\* hash = ((hash << 5) - hash) + char; hash = hash & hash
\* (the source wraps once, at `hash & hash`; wrapping after each operation
\* gives the same 32-bit result)
HashStep(hash, char) == Add32(Sub32(Shl5(hash), hash), char)

RECURSIVE HashFrom(_, _, _)
HashFrom(hash, seed, i) ==
    IF i > Len(seed) THEN hash
    ELSE HashFrom(HashStep(hash, charCodeAt(seed[i])), seed, i + 1)

\* abs(sin(h)) = abs(sin(-h)): the value is named by -|h|, which (unlike |h|)
\* always fits 32 bits
NegAbs(n) == IF n > 0 THEN -n ELSE n

\* mutant: the value differs from one layout computation to the next
seededRandom_perRender(seed) == [sinArg |-> NegAbs(HashFrom(renders, seed, 1))]

\* Math.abs(Math.sin(hash)), with sin left uninterpreted
seededRandom(seed) == [sinArg |-> NegAbs(HashFrom(0, seed, 1))]

-----------------------------------------------------------------------------
(* NetworkGraph: positionedContacts *)

\* mutant: every ring's band reaches down to the centre gap
getLayerBounds_fromCentre(layer) ==
    [innerRadius |-> 45,
     outerRadius |-> IF layer \in Layers THEN LAYER_CONFIG[layer].radius ELSE 0]

getLayerBounds(layer) ==
    LET layerIndex  == IndexOf(LAYER_ORDER, layer)
        outerRadius == IF layer \in Layers THEN LAYER_CONFIG[layer].radius ELSE 0
        innerRadius == IF layerIndex > 0
                       THEN LAYER_CONFIG[At(LAYER_ORDER, layerIndex - 1)].radius + 15
                       ELSE 45
    IN  [innerRadius |-> innerRadius, outerRadius |-> outerRadius]

\* mutant: the index wraps around instead of stopping at 'distant'
effectiveLayerOf_wrap(contact) ==
    IF contact.needsAttention
    THEN At(LAYER_ORDER, (IndexOf(LAYER_ORDER, contact.layer) + 1) % Len(LAYER_ORDER))
    ELSE contact.layer

\* mutant: a drifting contact moves one ring inward
effectiveLayerOf_inward(contact) ==
    IF contact.needsAttention /\ contact.layer # "vip"
    THEN At(LAYER_ORDER, IndexOf(LAYER_ORDER, contact.layer) - 1)
    ELSE contact.layer

\* isDrifting && contact.layer !== 'distant' ? LAYER_ORDER[index + 1] : contact.layer
effectiveLayerOf(contact) ==
    IF contact.needsAttention /\ contact.layer # "distant"
    THEN At(LAYER_ORDER, IndexOf(LAYER_ORDER, contact.layer) + 1)
    ELSE contact.layer

\* an angle is either seededRandom(id) * 2 pi (seeded, v the sine's argument)
\* or a dragged Math.atan2 value (v in milliradians)
SeededAngle(id) == [seeded |-> TRUE,  v |-> seededRandom(id).sinArg]
AtanAngle(mrad) == [seeded |-> FALSE, v |-> mrad]

\* mutant: `||` in place of `??` (a dragged angle of 0 is falsy)
angleOf_or(id, angles) ==
    IF id \in DOMAIN angles /\ angles[id].v # 0 THEN angles[id] ELSE SeededAngle(id)

\* contactAngles[contact.id] ?? randomAngle
angleOf(id, angles) ==
    IF id \in DOMAIN angles THEN angles[id] ELSE SeededAngle(id)

\* a radius is the exact expression  (const10 + coef10 * rand) / 10  in the
\* uninterpreted value rand = seededRandom(..)
NoRand == [sinArg |-> 1]

\* mutant: the bounds of the nominal ring are used
radiusOf_nominal(contact) ==
    LET b == getLayerBounds(contact.layer)
    IN  IF contact.needsAttention
        THEN [const10 |-> 10 * b.outerRadius, coef10 |-> 0, rand |-> NoRand]
        ELSE [const10 |-> 10 * b.innerRadius + 3 * (b.outerRadius - b.innerRadius),
              coef10  |-> 5 * (b.outerRadius - b.innerRadius),
              rand    |-> seededRandom(contact.id \o <<"r", "a", "d", "i", "u", "s">>)]

\* isDrifting ? outerRadius
\*            : innerRadius + (outerRadius - innerRadius) * (0.3 + randomRadius * 0.5)
radiusOf(contact) ==
    LET b == getLayerBounds(effectiveLayerOf(contact))
    IN  IF contact.needsAttention
        THEN [const10 |-> 10 * b.outerRadius, coef10 |-> 0, rand |-> NoRand]
        ELSE [const10 |-> 10 * b.innerRadius + 3 * (b.outerRadius - b.innerRadius),
              coef10  |-> 5 * (b.outerRadius - b.innerRadius),
              rand    |-> seededRandom(contact.id \o <<"r", "a", "d", "i", "u", "s">>)]

\* one pass of contacts.forEach: the entry pushed for `contact`
positionOf(contact, angles) ==
    LET angle  == angleOf(contact.id, angles)
        radius == radiusOf(contact)
    IN  [contact        |-> contact,
         x              |-> [fn |-> "cos", angle |-> angle, radius |-> radius],
         y              |-> [fn |-> "sin", angle |-> angle, radius |-> radius],
         angle          |-> angle,
         radius         |-> radius,
         effectiveLayer |-> effectiveLayerOf(contact)]

positionedContacts(cs, angles) == [i \in 1..Len(cs) |-> positionOf(cs[i], angles)]

\* the earlier NetworkGraph: contacts grouped by effective layer
contactsByLayer(cs) ==
    [l \in Layers |->
        SelectSeq(cs, LAMBDA c :
            (IF c.needsAttention /\ c.layer # "distant"
             THEN At(LAYER_ORDER, IndexOf(LAYER_ORDER, c.layer) + 1)
             ELSE c.layer) = l)]

-----------------------------------------------------------------------------
(* The classifier under a running clock *)

\* stored timestamps tried: never contacted, the epoch, one hour in, two days ahead
ClsStamps == {NULL, 0, 60 * 60, 2 * DayLen}

ClsInit ==
    /\ clsContact \in [layer : Layers,
                       contact_frequency : FrequencyTags,
                       last_contact_at : ClsStamps]
    /\ clsNow = 0
    /\ clsPc = "idle"
    /\ clsNeedsAttention = FALSE

ClsIdle ==
    /\ clsContact = [layer |-> "regular", contact_frequency |-> "monthly",
                     last_contact_at |-> NULL]
    /\ clsNow = 0
    /\ clsPc = "idle"
    /\ clsNeedsAttention = FALSE

\* the clock is sampled at the first and the last second of every day
NextInstant(t) == IF t % DayLen = DayLen - 1 THEN t + 1 ELSE t + (DayLen - 1)

ClsTick ==
    /\ NextInstant(clsNow) <= MaxDay * DayLen
    /\ clsNow' = NextInstant(clsNow)
    /\ clsPc' = IF clsPc = "idle" THEN "idle" ELSE "stale"
    /\ UNCHANGED <<clsContact, clsNeedsAttention>>
    /\ UNCHANGED graphVars
    /\ UNCHANGED dataVars
    /\ UNCHANGED otherVars

\* a read of the row: mapDbContactToContact recomputes needsAttention
ClsClassify ==
    /\ clsNeedsAttention' = calculateNeedsAttention(clsContact, clsNow)
    /\ clsPc' = "fresh"
    /\ UNCHANGED <<clsContact, clsNow>>
    /\ UNCHANGED graphVars
    /\ UNCHANGED dataVars
    /\ UNCHANGED otherVars

ClsNext == ClsTick \/ ClsClassify

-----------------------------------------------------------------------------
(* NetworkGraph as Index renders it *)

\* contact ids, in the order the contacts query returns their rows
GraphIds == << <<"a">>, <<"b", "7">> >>

\* angles a drag can produce: Math.atan2(mouseY, mouseX), in milliradians
DragAngles == {AtanAngle(0), AtanAngle(2356)}

ContactObjects ==
    [id : {GraphIds[i] : i \in 1..Len(GraphIds)},
     layer : Layers,
     needsAttention : BOOLEAN]

\* lists that keep the ids distinct and in query order
ContactLists ==
    {<<>>}
    \cup {<<c>> : c \in ContactObjects}
    \cup {<<c, d>> : c \in {x \in ContactObjects : x.id = GraphIds[1]},
                     d \in {x \in ContactObjects : x.id = GraphIds[2]}}

EmptyMap == [x \in {} |-> x]

IdsOf(cs) == {cs[i].id : i \in 1..Len(cs)}

\* what Index shows when the graph is not rendered
NoLayout == <<>>

GraphInit ==
    /\ mounted = TRUE
    /\ contacts \in ContactLists
    /\ contactAngles = EmptyMap
    /\ renders = 1
    /\ positioned = positionedContacts(contacts, EmptyMap)
    /\ lastDrag = EmptyMap
    /\ lastOp = "mount"

GraphIdle ==
    /\ mounted = FALSE
    /\ contacts = <<>>
    /\ contactAngles = EmptyMap
    /\ positioned = NoLayout
    /\ renders = 0
    /\ lastDrag = EmptyMap
    /\ lastOp = "none"

\* the memo is recomputed whenever contacts or contactAngles change
Relayout(cs, angles) ==
    IF mounted
    THEN /\ renders < MaxRenders
         /\ renders' = renders + 1
         /\ positioned' = positionedContacts(cs, angles)
    ELSE /\ UNCHANGED <<renders, positioned>>

\* Index passes a new filteredContacts: one contact's layer or needsAttention
\* differs (an edit, a refetch), a contact is gone, or a contact is new
PropsChanged ==
    /\ \E cs \in ContactLists :
        /\ cs # contacts
        /\ \/ /\ Len(cs) = Len(contacts)
              /\ IdsOf(cs) = IdsOf(contacts)
              /\ Cardinality({i \in 1..Len(cs) : cs[i] # contacts[i]}) = 1
           \/ /\ Len(cs) = Len(contacts) + 1
              /\ \A i \in 1..Len(contacts) : \E j \in 1..Len(cs) : cs[j] = contacts[i]
           \/ /\ Len(cs) + 1 = Len(contacts)
              /\ \A j \in 1..Len(cs) : \E i \in 1..Len(contacts) : cs[j] = contacts[i]
        /\ contacts' = cs
        /\ Relayout(cs, contactAngles)
    /\ lastOp' = "props"
    /\ UNCHANGED <<mounted, contactAngles, lastDrag>>
    /\ UNCHANGED clsVars
    /\ UNCHANGED dataVars
    /\ UNCHANGED otherVars

\* Index re-renders with an equal list in a fresh array: the memo recomputes
Rerender ==
    /\ mounted
    /\ Relayout(contacts, contactAngles)
    /\ lastOp' = "rerender"
    /\ UNCHANGED <<mounted, contacts, contactAngles, lastDrag>>
    /\ UNCHANGED clsVars
    /\ UNCHANGED dataVars
    /\ UNCHANGED otherVars

\* setContactAngles(prev => ({ ...prev, [contactId]: newAngle }))
withAngle(prev, contactId, newAngle) ==
    [x \in DOMAIN prev \cup {contactId} |->
        IF x = contactId THEN newAngle ELSE prev[x]]

\* a ContactNode of the graph is dragged: handleMouseMove calls onAngleChange
handleAngleChange ==
    /\ mounted
    /\ \E i \in 1..Len(contacts), newAngle \in DragAngles :
        LET contactId == contacts[i].id IN
        /\ (contactId \in DOMAIN contactAngles => contactAngles[contactId] # newAngle)
        /\ contactAngles' = withAngle(contactAngles, contactId, newAngle)
        /\ Relayout(contacts, contactAngles')
        /\ lastDrag' = withAngle(lastDrag, contactId,
                [angle |-> newAngle, live |-> TRUE,
                 wasDrifting |-> contacts[i].needsAttention])
    /\ lastOp' = "handleAngleChange"
    /\ UNCHANGED <<mounted, contacts>>
    /\ UNCHANGED clsVars
    /\ UNCHANGED dataVars
    /\ UNCHANGED otherVars

\* showChat, the empty state or the loading spinner replaces <NetworkGraph>:
\* its useState values are discarded
Unmount ==
    /\ mounted
    /\ mounted' = FALSE
    /\ contactAngles' = EmptyMap
    /\ positioned' = NoLayout
    /\ lastDrag' = [x \in DOMAIN lastDrag |-> [lastDrag[x] EXCEPT !.live = FALSE]]
    /\ lastOp' = "unmount"
    /\ UNCHANGED <<contacts, renders>>
    /\ UNCHANGED clsVars
    /\ UNCHANGED dataVars
    /\ UNCHANGED otherVars

\* <NetworkGraph> is rendered again: useState({}) and a first layout
Mount ==
    /\ ~mounted
    /\ renders < MaxRenders
    /\ mounted' = TRUE
    /\ contactAngles' = EmptyMap
    /\ renders' = renders + 1
    /\ positioned' = positionedContacts(contacts, EmptyMap)
    /\ lastOp' = "mount"
    /\ UNCHANGED <<contacts, lastDrag>>
    /\ UNCHANGED clsVars
    /\ UNCHANGED dataVars
    /\ UNCHANGED otherVars

GraphNext == PropsChanged \/ Rerender \/ handleAngleChange \/ Unmount \/ Mount

-----------------------------------------------------------------------------
(* Data layer: the contacts and conversations tables, useContacts,           *)
(* useCreateContact, useCreateConversation, and Index's filter               *)

NoUser == "null"

UserId == "u1"

\* a user_id a caller may put in the mutation's input: none, the empty string
\* (ActionOverviewPanel), or some id (LogConversationDialog passes contact.user_id)
SuppliedUserIds == {"undefined", "", "u2"}

spreadUserId_inputLast(supplied, uid) == IF supplied = "undefined" THEN uid ELSE supplied

\* { ...input, user_id: user.id }: the later key wins whatever the input supplied
spreadUserId(supplied, uid) == uid

\* contact ids; the contacts query orders rows by name, modelled as this order
DataIds == <<"c1", "c2">>

\* what the add-contact form is submitted with in this model
FormInputs == {[layer |-> "vip",     contact_frequency |-> "weekly"],
               [layer |-> "regular", contact_frequency |-> "yearly"]}

\* offset of a `datetime-local` value read back as local time, west of UTC
LocalOffset == 5 * 60 * 60

\* occurred_at as the callers produce it: the current instant (the action panel), the form's
\* default read back as local time, or an earlier date the user picked
OccurredAt(t) == {x \in {t, t + LocalOffset, t - 2 * DayLen} : x >= 0}

\* the mutation before its first call
Idle == [status |-> "idle", step |-> "none", contact_id |-> "",
         occurred_at |-> NULL, updated |-> FALSE]

DataInit ==
    /\ wallClock = 0
    /\ user = UserId
    /\ contactsTable = EmptyMap
    /\ conversationsTable = <<>>
    /\ contactsQuery = [data |-> <<>>, fetched |-> FALSE, isInvalidated |-> FALSE,
                        dataUpdatedAt |-> NULL]
    /\ convMutation = Idle
    /\ lastLog = EmptyMap

DataIdle == DataInit

\* mapDbContactToContact, with the clock calculateNeedsAttention reads
mapDbContactToContact(id, dbContact, t) ==
    [id |-> id,
     user_id |-> dbContact.user_id,
     layer |-> dbContact.layer,
     contact_frequency |-> dbContact.contact_frequency,
     last_contact_at |-> dbContact.last_contact_at,
     needsAttention |-> calculateNeedsAttention(dbContact, t)]

\* select('*').order('name') under the row-level policy auth.uid() = user_id
SelectContacts(table, uid) ==
    LET visible == {id \in DOMAIN table : table[id].user_id = uid}
        ordered == SelectSeq(DataIds, LAMBDA id : id \in visible)
    IN  ordered

\* mutant: needsAttention computed once, at the epoch, instead of on every read
useContactsQueryFn_epoch(table, uid, t) ==
    LET ids == SelectContacts(table, uid)
    IN  [i \in 1..Len(ids) |-> mapDbContactToContact(ids[i], table[ids[i]], 0)]

\* useContacts: queryFn
useContactsQueryFn(table, uid, t) ==
    LET ids == SelectContacts(table, uid)
    IN  [i \in 1..Len(ids) |-> mapDbContactToContact(ids[i], table[ids[i]], t)]

\* Index: filteredContacts
filteredContacts(displayContacts, selectedLayer, showOnlyAttention) ==
    LET byLayer == IF selectedLayer # "null"
                   THEN SelectSeq(displayContacts, LAMBDA c : c.layer = selectedLayer)
                   ELSE displayContacts
    IN  IF showOnlyAttention
        THEN SelectSeq(byLayer, LAMBDA c : c.needsAttention)
        ELSE byLayer

\* Index: needsAttentionCount
needsAttentionCount(displayContacts) ==
    Len(SelectSeq(displayContacts, LAMBDA c : c.needsAttention))

\* mutant: last_contact_at only ever moves forward
updateLastContact_max(table, uid, contact_id, occurred_at) ==
    [id \in DOMAIN table |->
        IF id = contact_id /\ table[id].user_id = uid
              /\ (table[id].last_contact_at = NULL
                    \/ table[id].last_contact_at < occurred_at)
        THEN [table[id] EXCEPT !.last_contact_at = occurred_at]
        ELSE table[id]]

\* mutant: the update has no .eq('id', ..) filter
updateLastContact_all(table, uid, contact_id, occurred_at) ==
    [id \in DOMAIN table |->
        IF table[id].user_id = uid
        THEN [table[id] EXCEPT !.last_contact_at = occurred_at]
        ELSE table[id]]

\* from('contacts').update({ last_contact_at }).eq('id', contact_id), under the
\* row-level policy auth.uid() = user_id
updateLastContact(table, uid, contact_id, occurred_at) ==
    [id \in DOMAIN table |->
        IF id = contact_id /\ table[id].user_id = uid
        THEN [table[id] EXCEPT !.last_contact_at = occurred_at]
        ELSE table[id]]

\* mutant: onSuccess forgets invalidateQueries({ queryKey: ['contacts'] })
invalidateContacts_forgotten(q) == q

\* queryClient.invalidateQueries({ queryKey: ['contacts'] })
invalidateContacts(q) == [q EXCEPT !.isInvalidated = TRUE]

\* time passes, two days at a step
DataTick ==
    /\ wallClock + 2 * DayLen <= MaxTicks * 2 * DayLen
    /\ wallClock' = wallClock + 2 * DayLen
    /\ UNCHANGED <<user, contactsTable, conversationsTable, contactsQuery,
                   convMutation, lastLog>>
    /\ UNCHANGED <<clsVars, graphVars>>
    /\ UNCHANGED otherVars

SignOut ==
    /\ user # NoUser
    /\ user' = NoUser
    /\ UNCHANGED <<wallClock, contactsTable, conversationsTable, contactsQuery,
                   convMutation, lastLog>>
    /\ UNCHANGED <<clsVars, graphVars>>
    /\ UNCHANGED otherVars

SignIn ==
    /\ user = NoUser
    /\ user' = UserId
    /\ UNCHANGED <<wallClock, contactsTable, conversationsTable, contactsQuery,
                   convMutation, lastLog>>
    /\ UNCHANGED <<clsVars, graphVars>>
    /\ UNCHANGED otherVars

\* useContacts: the query function runs (first load, invalidation, refocus)
FetchContacts ==
    /\ contactsQuery' = [data |-> useContactsQueryFn(contactsTable, user, wallClock),
                         fetched |-> TRUE,
                         isInvalidated |-> FALSE,
                         dataUpdatedAt |-> wallClock]
    /\ UNCHANGED <<wallClock, user, contactsTable, conversationsTable, convMutation, lastLog>>
    /\ UNCHANGED <<clsVars, graphVars>>
    /\ UNCHANGED otherVars

\* useCreateContact: mutationFn with onSuccess / onError
CreateContact ==
    /\ \E i \in 1..Len(DataIds), contact \in FormInputs :
        /\ DataIds[i] \notin DOMAIN contactsTable
        /\ \/ /\ user = NoUser                   \* throw new Error('Not authenticated')
              /\ UNCHANGED <<contactsTable, contactsQuery>>
           \/ /\ user # NoUser                   \* the insert returns an error
              /\ UNCHANGED <<contactsTable, contactsQuery>>
           \/ /\ user # NoUser                   \* the row is inserted
              /\ \E supplied \in SuppliedUserIds : contactsTable' =
                    [id \in DOMAIN contactsTable \cup {DataIds[i]} |->
                        IF id = DataIds[i]
                        THEN [user_id |-> spreadUserId(supplied, user),
                              layer |-> contact.layer,
                              contact_frequency |-> contact.contact_frequency,
                              last_contact_at |-> NULL]
                        ELSE contactsTable[id]]
              /\ contactsQuery' = invalidateContacts(contactsQuery)
    /\ UNCHANGED <<wallClock, user, conversationsTable, convMutation, lastLog>>
    /\ UNCHANGED <<clsVars, graphVars>>
    /\ UNCHANGED otherVars

\* the cached Contact object with this id, as a set (empty when not cached)
Cached(id) ==
    {contactsQuery.data[k] : k \in {j \in 1..Len(contactsQuery.data) :
                                        contactsQuery.data[j].id = id}}

\* createConversation.mutateAsync(..) for a displayed contact: getUser
CreateConversationStart ==
    /\ convMutation.status # "pending"
    /\ Len(conversationsTable) < MaxConversations
    /\ \E k \in 1..Len(contactsQuery.data), occurred_at \in OccurredAt(wallClock) :
        LET contact == contactsQuery.data[k] IN
        \/ /\ user = NoUser                      \* throw new Error('Not authenticated')
           /\ convMutation' = [status |-> "error", step |-> "none",
                               contact_id |-> contact.id,
                               occurred_at |-> occurred_at, updated |-> FALSE]
        \/ /\ user # NoUser
           /\ convMutation' = [status |-> "pending", step |-> "insert",
                               contact_id |-> contact.id,
                               occurred_at |-> occurred_at, updated |-> FALSE]
    /\ UNCHANGED <<wallClock, user, contactsTable, conversationsTable, contactsQuery, lastLog>>
    /\ UNCHANGED <<clsVars, graphVars>>
    /\ UNCHANGED otherVars

\* mutant: the `if (error) throw error` after the insert is missing
CreateConversationInsert_noThrow ==
    /\ convMutation.step = "insert"
    /\ \/ /\ user # NoUser
          /\ convMutation.contact_id \in DOMAIN contactsTable
          /\ conversationsTable' = Append(conversationsTable,
                [contact_id |-> convMutation.contact_id, user_id |-> user,
                 occurred_at |-> convMutation.occurred_at])
          /\ convMutation' = [convMutation EXCEPT !.step = "update"]
       \/ /\ conversationsTable' = conversationsTable
          /\ convMutation' = [convMutation EXCEPT !.step = "update"]
    /\ UNCHANGED <<wallClock, user, contactsTable, contactsQuery, lastLog>>
    /\ UNCHANGED <<clsVars, graphVars>>
    /\ UNCHANGED otherVars

\* the insert into conversations resolves
CreateConversationInsert ==
    /\ convMutation.step = "insert"
    /\ \/ /\ user # NoUser                       \* inserted: row-level check passes
          /\ convMutation.contact_id \in DOMAIN contactsTable
          /\ \E supplied \in SuppliedUserIds :
                conversationsTable' = Append(conversationsTable,
                    [contact_id |-> convMutation.contact_id,
                     user_id |-> spreadUserId(supplied, user),
                     occurred_at |-> convMutation.occurred_at])
          /\ convMutation' = [convMutation EXCEPT !.step = "update"]
       \/ /\ conversationsTable' = conversationsTable  \* error: thrown, onError
          /\ convMutation' = [convMutation EXCEPT !.status = "error", !.step = "none"]
    /\ UNCHANGED <<wallClock, user, contactsTable, contactsQuery, lastLog>>
    /\ UNCHANGED <<clsVars, graphVars>>
    /\ UNCHANGED otherVars

\* the update of contacts resolves (its result is not inspected); the mutation
\* function returns and onSuccess runs
CreateConversationUpdate ==
    /\ convMutation.step = "update"
    /\ \/ /\ user # NoUser                       \* the update is applied
          /\ contactsTable' = updateLastContact(contactsTable, user,
                convMutation.contact_id, convMutation.occurred_at)
          /\ lastLog' = withAngle(lastLog, convMutation.contact_id,
                [occurred_at |-> convMutation.occurred_at,
                 wasFlagged |-> \E c \in Cached(convMutation.contact_id) :
                                    c.needsAttention])
          /\ convMutation' = [convMutation EXCEPT !.status = "success",
                                                  !.step = "none", !.updated = TRUE]
       \/ /\ UNCHANGED <<contactsTable, lastLog>>    \* the update is lost, unnoticed
          /\ convMutation' = [convMutation EXCEPT !.status = "success",
                                                  !.step = "none"]
    /\ contactsQuery' = invalidateContacts(contactsQuery)
    /\ UNCHANGED <<wallClock, user, conversationsTable>>
    /\ UNCHANGED <<clsVars, graphVars>>
    /\ UNCHANGED otherVars

DataNext ==
    \/ DataTick
    \/ SignOut
    \/ SignIn
    \/ FetchContacts
    \/ CreateContact
    \/ CreateConversationStart
    \/ CreateConversationInsert
    \/ CreateConversationUpdate

-----------------------------------------------------------------------------
(* Opportunities: the table, useOpportunities and the mutation hooks         *)

\* the contacts the opportunities of this model belong to
OppContacts ==
    [id \in {"c1", "c2"} |->
        IF id = "c1"
        THEN [user_id |-> UserId, layer |-> "vip", contact_frequency |-> "weekly",
              last_contact_at |-> NULL]
        ELSE [user_id |-> UserId, layer |-> "regular", contact_frequency |-> "yearly",
              last_contact_at |-> 0]]

\* daysFromNow of the entries of sampleOpportunities, the first MaxSamples of them
sampleOpportunities == SubSeq(<<-2, 0, 1, -1, 0, -3, 0, 1, -4, 0, 1>>, 1, MaxSamples)

NoCall == [hook |-> "none", status |-> "idle", id |-> 0]

NoToast == [title |-> "", variant |-> "default"]

\* no handleComplete call is in flight (opportunity 0: none)
NoComplete == [step |-> "idle", opportunity |-> 0]

Done(hook, id) == [hook |-> hook, status |-> "success", id |-> id]

Failed(hook, id) == [hook |-> hook, status |-> "error", id |-> id]

Notice(title) == [title |-> title, variant |-> "default"]

Destructive(title) == [title |-> title, variant |-> "destructive"]

OppIdle ==
    /\ oppTable = EmptyMap
    /\ oppNextId = 1
    /\ oppQuery = [data |-> <<>>, fetched |-> FALSE, isInvalidated |-> FALSE]
    /\ oppCall = NoCall
    /\ toast = NoToast
    /\ panelMounted = FALSE
    /\ dismissedIds = {}
    /\ generatingFor = <<>>
    /\ generatedMessages = {}
    /\ panelPc = NoComplete
    /\ unhandledRejection = ""

\* a signed-in user with two contacts; the panel is shown, nothing is stored yet
OppInit ==
    /\ wallClock = 0
    /\ user = UserId
    /\ contactsTable = OppContacts
    /\ conversationsTable = <<>>
    /\ contactsQuery = [data |-> <<>>, fetched |-> FALSE, isInvalidated |-> FALSE,
                        dataUpdatedAt |-> NULL]
    /\ convMutation = Idle
    /\ lastLog = EmptyMap
    /\ oppTable = EmptyMap
    /\ oppNextId = 1
    /\ oppQuery = [data |-> <<>>, fetched |-> FALSE, isInvalidated |-> FALSE]
    /\ oppCall = NoCall
    /\ toast = NoToast
    /\ panelMounted = TRUE
    /\ dismissedIds = {}
    /\ generatingFor = <<>>
    /\ generatedMessages = {}
    /\ panelPc = NoComplete
    /\ unhandledRejection = ""

\* mutant: the embedded contact is left out
mapDbOpportunityToOpportunity_bare(id, dbOpp, dbContacts) ==
    [id |-> id,
     contact_id |-> dbOpp.contact_id,
     user_id |-> dbOpp.user_id,
     due_date |-> dbOpp.due_date,
     is_completed |-> dbOpp.is_completed,
     completed_at |-> dbOpp.completed_at,
     contact |-> <<>>]

\* mapDbOpportunityToOpportunity; dbOpp.contact is the joined contacts row, the
\* embedded contact is a sequence of at most one Contact
mapDbOpportunityToOpportunity(id, dbOpp, dbContacts) ==
    [id |-> id,
     contact_id |-> dbOpp.contact_id,
     user_id |-> dbOpp.user_id,
     due_date |-> dbOpp.due_date,
     is_completed |-> dbOpp.is_completed,
     completed_at |-> dbOpp.completed_at,
     contact |-> IF dbOpp.contact_id \in DOMAIN dbContacts
                 THEN LET dbContact == dbContacts[dbOpp.contact_id]
                      IN  <<[id |-> dbOpp.contact_id,
                             user_id |-> dbContact.user_id,
                             layer |-> dbContact.layer,
                             contact_frequency |-> dbContact.contact_frequency,
                             last_contact_at |-> dbContact.last_contact_at,
                             needsAttention |-> FALSE]>>
                 ELSE <<>>]

\* order('due_date', { ascending: true }): nulls last, ties in id order
DueBefore(table, a, b) ==
    LET da == table[a].due_date
        db == table[b].due_date
    IN  IF da = db THEN a < b
        ELSE IF da = NULL THEN FALSE
        ELSE IF db = NULL THEN TRUE
        ELSE da < db

OrderByDueDate(table, ids) ==
    CHOOSE seq \in [1..Cardinality(ids) -> ids] :
        \A i, j \in 1..Cardinality(ids) : i < j => DueBefore(table, seq[i], seq[j])

\* useOpportunities: queryFn, under the row-level policies auth.uid() = user_id
useOpportunitiesQueryFn(table, dbContacts, uid) ==
    LET visible == {id \in DOMAIN table : table[id].user_id = uid}
        rows == {id \in DOMAIN dbContacts : dbContacts[id].user_id = uid}
        joined == [id \in rows |-> dbContacts[id]]
        ordered == OrderByDueDate(table, visible)
    IN  [i \in 1..Len(ordered) |->
            mapDbOpportunityToOpportunity(ordered[i], table[ordered[i]], joined)]

\* queryClient.invalidateQueries({ queryKey: ['opportunities'] })
invalidateOpportunities(q) == [q EXCEPT !.isInvalidated = TRUE]

\* the rows a request of this user can update or delete
OwnRow(id) == id \in DOMAIN oppTable /\ user # NoUser /\ oppTable[id].user_id = user

\* ids that were handed out and may still be known to a caller
IssuedIds == 1..(oppNextId - 1)

InsertRow(table, id, row) ==
    [x \in DOMAIN table \cup {id} |-> IF x = id THEN row ELSE table[x]]

DeleteRow(table, id) == [x \in DOMAIN table \ {id} |-> table[x]]

\* useOpportunities: the query function runs
FetchOpportunities ==
    /\ oppQuery' = [data |-> useOpportunitiesQueryFn(oppTable, contactsTable, user),
                    fetched |-> TRUE, isInvalidated |-> FALSE]
    /\ UNCHANGED <<oppTable, oppNextId, oppCall, toast, panelMounted, dismissedIds,
                   generatingFor, generatedMessages, panelPc, unhandledRejection>>
    /\ UNCHANGED <<clsVars, graphVars, dataVars>>
    /\ UNCHANGED <<recVars, edgeVars, extraVars>>

\* what AddOpportunityDialog and other callers hand to createOpportunity:
\* is_completed is optional in CreateOpportunityInput ("unset": the column default)
CreateInputs == [is_completed : {"unset", "false", "true"}, due : {"unset"}]

\* what a caller hands to updateOpportunity: Partial<CreateOpportunityInput>
UpdateInputs == {"is_completed" :> TRUE, "is_completed" :> FALSE, "due_date" :> NULL}

\* update(updates): the columns named in updates are overwritten
ApplyUpdates(row, updates) ==
    [k \in DOMAIN row |-> IF k \in DOMAIN updates THEN updates[k] ELSE row[k]]

\* useCreateOpportunity: mutationFn with onSuccess / onError
CreateOpportunity ==
    /\ oppNextId <= MaxOpps
    /\ \E contact_id \in DOMAIN contactsTable, opportunity \in CreateInputs :
        \/ /\ user = NoUser                      \* throw new Error('Not authenticated')
           /\ oppCall' = Failed("create", 0)
           /\ toast' = Destructive("Failed to create opportunity")
           /\ UNCHANGED <<oppTable, oppNextId, oppQuery>>
        \/ /\ user # NoUser                      \* the insert returns an error
           /\ oppCall' = Failed("create", 0)
           /\ toast' = Destructive("Failed to create opportunity")
           /\ UNCHANGED <<oppTable, oppNextId, oppQuery>>
        \/ /\ user # NoUser                      \* the row is inserted
           /\ contactsTable[contact_id].user_id = user
           /\ \E supplied \in SuppliedUserIds : oppTable' = InsertRow(oppTable, oppNextId,
                [contact_id |-> contact_id, user_id |-> spreadUserId(supplied, user),
                 due_date |-> IF opportunity.due = "now" THEN wallClock ELSE NULL,
                 is_completed |-> opportunity.is_completed = "true",
                 completed_at |-> NULL])
           /\ oppNextId' = oppNextId + 1
           /\ oppQuery' = invalidateOpportunities(oppQuery)
           /\ oppCall' = Done("create", oppNextId)
           /\ toast' = Notice("Opportunity created successfully")
    /\ UNCHANGED <<panelMounted, dismissedIds, generatingFor, generatedMessages, panelPc, unhandledRejection>>
    /\ UNCHANGED <<clsVars, graphVars, dataVars>>
    /\ UNCHANGED <<recVars, edgeVars, extraVars>>

\* useUpdateOpportunity: update(updates).eq('id', id).select().single()
UpdateOpportunity ==
    /\ \E id \in IssuedIds, updates \in UpdateInputs :
        \/ /\ OwnRow(id)                         \* the row is updated
           /\ oppTable' = [oppTable EXCEPT ![id] = ApplyUpdates(oppTable[id], updates)]
           /\ oppQuery' = invalidateOpportunities(oppQuery)
           /\ oppCall' = Done("update", id)
           /\ toast' = Notice("Opportunity updated")
        \/ /\ oppCall' = Failed("update", id)    \* no row, or the request fails
           /\ toast' = Destructive("Failed to update opportunity")
           /\ UNCHANGED <<oppTable, oppQuery>>
    /\ UNCHANGED <<oppNextId, panelMounted, dismissedIds, generatingFor,
                   generatedMessages, panelPc, unhandledRejection>>
    /\ UNCHANGED <<clsVars, graphVars, dataVars>>
    /\ UNCHANGED <<recVars, edgeVars, extraVars>>

\* useCompleteOpportunity: update({ is_completed: true, completed_at: now })
CompleteOpportunity ==
    /\ \E id \in IssuedIds :
        \/ /\ OwnRow(id)
           /\ oppTable' = [oppTable EXCEPT ![id] =
                ApplyUpdates(oppTable[id],
                    [k \in {"is_completed", "completed_at"} |->
                        IF k = "is_completed" THEN TRUE ELSE wallClock])]
           /\ oppQuery' = invalidateOpportunities(oppQuery)
           /\ oppCall' = Done("complete", id)
           /\ toast' = Notice("Marked as complete!")
        \/ /\ oppCall' = Failed("complete", id)
           /\ toast' = Destructive("Failed to complete")
           /\ UNCHANGED <<oppTable, oppQuery>>
    /\ UNCHANGED <<oppNextId, panelMounted, dismissedIds, generatingFor,
                   generatedMessages, panelPc, unhandledRejection>>
    /\ UNCHANGED <<clsVars, graphVars, dataVars>>
    /\ UNCHANGED <<recVars, edgeVars, extraVars>>

\* useDeleteOpportunity: delete().eq('id', id); deleting no row is no error
DeleteOpportunity ==
    /\ \E id \in IssuedIds :
        \/ /\ oppTable' = IF OwnRow(id) THEN DeleteRow(oppTable, id) ELSE oppTable
           /\ oppQuery' = invalidateOpportunities(oppQuery)
           /\ oppCall' = Done("delete", id)
           /\ toast' = Notice("Opportunity deleted")
        \/ /\ oppCall' = Failed("delete", id)
           /\ toast' = Destructive("Failed to delete")
           /\ UNCHANGED <<oppTable, oppQuery>>
    /\ UNCHANGED <<oppNextId, panelMounted, dismissedIds, generatingFor,
                   generatedMessages, panelPc, unhandledRejection>>
    /\ UNCHANGED <<clsVars, graphVars, dataVars>>
    /\ UNCHANGED <<recVars, edgeVars, extraVars>>

\* the rows useSeedSampleOpportunities builds for these contact ids
SeedRows(contactIds, uid, t) ==
    [index \in 1..Len(sampleOpportunities) |->
        [contact_id |-> contactIds[((index - 1) % Len(contactIds)) + 1],
         user_id |-> uid,
         due_date |-> t + sampleOpportunities[index] * DayLen,
         is_completed |-> FALSE,
         completed_at |-> NULL]]

\* useSeedSampleOpportunities: mutationFn with onSuccess / onError
SeedSampleOpportunities ==
    /\ oppNextId + Len(sampleOpportunities) - 1 <= MaxOpps
    /\ \E contactIds \in {<<>>, SelectContacts(contactsTable, user)} :
        \/ /\ (user = NoUser \/ contactIds = <<>>)    \* the two throws
           /\ oppCall' = Failed("seed", 0)
           /\ toast' = Destructive("Failed to add sample opportunities")
           /\ UNCHANGED <<oppTable, oppNextId, oppQuery>>
        \/ /\ user # NoUser /\ contactIds # <<>>      \* the insert returns an error
           /\ oppCall' = Failed("seed", 0)
           /\ toast' = Destructive("Failed to add sample opportunities")
           /\ UNCHANGED <<oppTable, oppNextId, oppQuery>>
        \/ /\ user # NoUser /\ contactIds # <<>>      \* the rows are inserted
           /\ LET rows == SeedRows(contactIds, user, wallClock)
              IN  oppTable' = [x \in DOMAIN oppTable
                                     \cup (oppNextId..(oppNextId + Len(rows) - 1)) |->
                                  IF x \in DOMAIN oppTable THEN oppTable[x]
                                  ELSE rows[x - oppNextId + 1]]
           /\ oppNextId' = oppNextId + Len(sampleOpportunities)
           /\ oppQuery' = invalidateOpportunities(oppQuery)
           /\ oppCall' = Done("seed", 0)
           /\ toast' = Notice("Added sample opportunities!")
    /\ UNCHANGED <<panelMounted, dismissedIds, generatingFor, generatedMessages, panelPc, unhandledRejection>>
    /\ UNCHANGED <<clsVars, graphVars, dataVars>>
    /\ UNCHANGED <<recVars, edgeVars, extraVars>>

\* time passes, two days at a step
OppTick ==
    /\ wallClock < MaxOppTicks * 2 * DayLen
    /\ wallClock' = wallClock + 2 * DayLen
    /\ UNCHANGED <<user, contactsTable, conversationsTable, contactsQuery,
                   convMutation, lastLog>>
    /\ UNCHANGED oppVars
    /\ UNCHANGED <<recVars, edgeVars, extraVars>>
    /\ UNCHANGED <<clsVars, graphVars>>

OppHooks ==
    \/ FetchOpportunities
    \/ CreateOpportunity
    \/ UpdateOpportunity
    \/ CompleteOpportunity
    \/ DeleteOpportunity
    \/ SeedSampleOpportunities

-----------------------------------------------------------------------------
(* ActionOverviewPanel: action items, dismissal, completion, suggestions     *)

\* the instant at which the panel is exercised: day 300 after c2's last contact
PanelNow == 300 * DayLen

\* date-fns, with days and weeks counted in UTC (the epoch day was a Thursday)
DayOf(t) == t \div DayLen

WeekOf(t) == (DayOf(t) + 4) \div 7

isToday(date, t) == DayOf(date) = DayOf(t)

isTomorrow(date, t) == DayOf(date) = DayOf(t) + 1

isThisWeek(date, t) == WeekOf(date) = WeekOf(t)

isPast(date, t) == date < t

\* getUrgencyOrder; NULL is the missing date
getUrgencyOrder(date, t) ==
    IF date = NULL THEN 999
    ELSE IF isPast(date, t) /\ ~isToday(date, t) THEN 0
    ELSE IF isToday(date, t) THEN 1
    ELSE IF isTomorrow(date, t) THEN 2
    ELSE IF isThisWeek(date, t) THEN 3
    ELSE 4 + (date - t) \div DayLen

\* mutant: the day table of getContactReminderDueDate without its default
frequencyDays_noDefault(tag) ==
    CASE tag = "daily"     -> 1
      [] tag = "weekly"    -> 7
      [] tag = "biweekly"  -> 14
      [] tag = "monthly"   -> 30
      [] tag = "quarterly" -> 90
      [] OTHER             -> 0

\* getContactReminderDueDate: frequencyDays[contact.contact_frequency] || 30
frequencyDays(tag) ==
    CASE tag = "daily"     -> 1
      [] tag = "weekly"    -> 7
      [] tag = "biweekly"  -> 14
      [] tag = "monthly"   -> 30
      [] tag = "quarterly" -> 90
      [] OTHER             -> 30

\* getContactReminderDueDate; NULL is undefined
getContactReminderDueDate(contact) ==
    IF contact.last_contact_at = NULL \/ contact.contact_frequency = "none"
    THEN NULL
    ELSE contact.last_contact_at + frequencyDays(contact.contact_frequency) * DayLen

\* the id of an action item: an opportunity's id, or `reminder-${contact.id}`
OppItemId(id) == <<"opportunity", id>>

ReminderItemId(contactId) == <<"reminder", contactId>>

\* the items actionItems builds from the open opportunities
OpportunityItems(opportunities) ==
    LET open == SelectSeq(opportunities, LAMBDA opp : ~opp.is_completed)
    IN  [i \in 1..Len(open) |->
            [id |-> OppItemId(open[i].id),
             type |-> "opportunity",
             contact |-> open[i].contact,
             dueDate |-> open[i].due_date,
             opportunity |-> open[i].id]]

\* hasRecentOpp: an item for this contact is due this week
hasRecentOpp(items, contact, t) ==
    \E i \in 1..Len(items) :
        /\ \E j \in 1..Len(items[i].contact) : items[i].contact[j].id = contact.id
        /\ items[i].dueDate # NULL
        /\ isThisWeek(items[i].dueDate, t)

RECURSIVE ReminderItems(_, _, _, _)
\* the contact reminders pushed after the items so far, from the k-th contact on
ReminderItems(items, cs, k, t) ==
    IF k > Len(cs) THEN items
    ELSE LET contact == cs[k]
             wanted == contact.needsAttention /\ contact.contact_frequency # "none"
         IN  IF wanted /\ ~hasRecentOpp(items, contact, t)
             THEN ReminderItems(Append(items,
                        [id |-> ReminderItemId(contact.id),
                         type |-> "contact-reminder",
                         contact |-> <<contact>>,
                         dueDate |-> getContactReminderDueDate(contact),
                         opportunity |-> 0]), cs, k + 1, t)
             ELSE ReminderItems(items, cs, k + 1, t)

RECURSIVE SortByUrgency(_, _)
\* items.sort((a, b) => getUrgencyOrder(a.dueDate) - getUrgencyOrder(b.dueDate)), stable
SortByUrgency(items, t) ==
    IF Len(items) <= 1 THEN items
    ELSE LET rest == SortByUrgency(SubSeq(items, 1, Len(items) - 1), t)
             last == items[Len(items)]
             key(x) == getUrgencyOrder(x.dueDate, t)
             before == SelectSeq(rest, LAMBDA x : key(x) <= key(last))
             after == SelectSeq(rest, LAMBDA x : key(x) > key(last))
         IN  before \o <<last>> \o after

\* the actionItems memo
actionItems(opportunities, cs, t) ==
    SortByUrgency(ReminderItems(OpportunityItems(opportunities), cs, 1, t), t)

\* what the panel works on: the two queries' data
PanelItems == actionItems(oppQuery.data, contactsQuery.data, wallClock)

activeItems == SelectSeq(PanelItems, LAMBDA item : item.id \notin dismissedIds)

dismissedItems == SelectSeq(PanelItems, LAMBDA item : item.id \in dismissedIds)

\* the cards shown: todayItems and upcomingItems both require a due date
shownItems == SelectSeq(activeItems, LAMBDA item : item.dueDate # NULL)

\* the 'Today & Overdue' list
todayItems ==
    SelectSeq(activeItems, LAMBDA item :
        /\ item.dueDate # NULL
        /\ (isToday(item.dueDate, wallClock)
              \/ (isPast(item.dueDate, wallClock) /\ ~isToday(item.dueDate, wallClock))))

\* the 'Upcoming' list
upcomingItems ==
    SelectSeq(activeItems, LAMBDA item :
        /\ item.dueDate # NULL
        /\ ~isToday(item.dueDate, wallClock)
        /\ ~isPast(item.dueDate, wallClock))

\* the contacts and opportunities the panel starts from
PanelContacts == OppContacts

PanelOpps ==
    [id \in {1, 2} |->
        [contact_id |-> "c1", user_id |-> UserId,
         due_date |-> IF id = 1 THEN PanelNow ELSE NULL,
         is_completed |-> FALSE, completed_at |-> NULL]]

PanelInit ==
    /\ wallClock = PanelNow
    /\ user = UserId
    /\ contactsTable = PanelContacts
    /\ conversationsTable = <<>>
    /\ contactsQuery = [data |-> <<>>, fetched |-> FALSE, isInvalidated |-> FALSE,
                        dataUpdatedAt |-> NULL]
    /\ convMutation = Idle
    /\ lastLog = EmptyMap
    /\ oppTable = PanelOpps
    /\ oppNextId = 3
    /\ oppQuery = [data |-> <<>>, fetched |-> FALSE, isInvalidated |-> FALSE]
    /\ oppCall = NoCall
    /\ toast = NoToast
    /\ panelMounted = TRUE
    /\ dismissedIds = {}
    /\ generatingFor = <<>>
    /\ generatedMessages = {}
    /\ panelPc = NoComplete
    /\ unhandledRejection = ""

\* mutant: dismissing also deletes the opportunity behind the item
handleDismissEffect_deletes(table, itemId) ==
    IF itemId[1] = "opportunity" THEN DeleteRow(table, itemId[2]) ELSE table

\* what handleDismiss does to the opportunities table: nothing, no request is made
handleDismissEffect(table, itemId) == table

\* handleDismiss
handleDismiss ==
    /\ panelMounted
    /\ \E k \in 1..Len(shownItems) :
        /\ dismissedIds' = dismissedIds \cup {shownItems[k].id}
        /\ oppTable' = handleDismissEffect(oppTable, shownItems[k].id)
    /\ toast' = Notice("Action dismissed")
    /\ UNCHANGED <<oppNextId, oppQuery, oppCall, panelMounted, generatingFor,
                   generatedMessages, panelPc, unhandledRejection>>
    /\ UNCHANGED <<clsVars, graphVars, dataVars>>
    /\ UNCHANGED <<recVars, edgeVars, extraVars>>

\* handleRestore, from the Dismissed section
handleRestore ==
    /\ panelMounted
    /\ \E k \in 1..Len(dismissedItems) :
        dismissedIds' = dismissedIds \ {dismissedItems[k].id}
    /\ toast' = Notice("Action restored")
    /\ UNCHANGED <<oppTable, oppNextId, oppQuery, oppCall, panelMounted, generatingFor,
                   generatedMessages, panelPc, unhandledRejection>>
    /\ UNCHANGED <<clsVars, graphVars, dataVars>>
    /\ UNCHANGED <<recVars, edgeVars, extraVars>>

\* Index stops rendering the panel (a contact is selected, chat view, reload)
PanelUnmount ==
    /\ panelMounted
    /\ panelMounted' = FALSE
    /\ dismissedIds' = {}
    /\ generatingFor' = <<>>
    /\ generatedMessages' = {}
    /\ UNCHANGED <<oppTable, oppNextId, oppQuery, oppCall, toast, panelPc, unhandledRejection>>
    /\ UNCHANGED <<clsVars, graphVars, dataVars>>
    /\ UNCHANGED <<recVars, edgeVars, extraVars>>

\* the panel is rendered again: useState starts from new Set()
PanelMount ==
    /\ ~panelMounted
    /\ panelMounted' = TRUE
    /\ dismissedIds' = {}
    /\ generatingFor' = <<>>
    /\ generatedMessages' = {}
    /\ UNCHANGED <<oppTable, oppNextId, oppQuery, oppCall, toast, panelPc, unhandledRejection>>
    /\ UNCHANGED <<clsVars, graphVars, dataVars>>
    /\ UNCHANGED <<recVars, edgeVars, extraVars>>

\* mutant: the conversation call is not awaited, a failure does not stop the handler
handleComplete_noAwait ==
    /\ panelMounted
    /\ panelPc.step = "idle"
    /\ Len(conversationsTable) < MaxConversations
    /\ \E k \in 1..Len(shownItems) :
        LET item == shownItems[k]
            contact_id == item.contact[1].id
            call == [status |-> "success", step |-> "none", contact_id |-> contact_id,
                     occurred_at |-> wallClock, updated |-> FALSE]
        IN
        IF Len(item.contact) = 0
        THEN \* if (item.contact) is false: no conversation is logged
           /\ IF item.type = "opportunity" /\ item.opportunity # 0
              THEN /\ panelPc' = [step |-> "complete", opportunity |-> item.opportunity]
                   /\ UNCHANGED toast
              ELSE /\ panelPc' = NoComplete
                   /\ toast' = Notice("Marked as done")
           /\ UNCHANGED <<conversationsTable, contactsTable, contactsQuery, lastLog,
                          convMutation, unhandledRejection>>
        ELSE
        /\ Len(item.contact) > 0
        /\ \/ \* not authenticated or the insert fails: onError, the promise rejects
              /\ convMutation' = [call EXCEPT !.status = "error"]
              /\ toast' = Destructive("Failed to log conversation")
              /\ unhandledRejection' = "handleComplete"
              /\ panelPc' = IF item.type = "opportunity" /\ item.opportunity # 0
                            THEN [step |-> "complete", opportunity |-> item.opportunity]
                            ELSE NoComplete
              /\ UNCHANGED <<conversationsTable, contactsTable, contactsQuery, lastLog>>
           \/ \* the conversation is stored; the contact update applies or is lost
              /\ user # NoUser
              /\ conversationsTable' = Append(conversationsTable,
                    [contact_id |-> contact_id, user_id |-> spreadUserId("", user),
                     occurred_at |-> wallClock])
              /\ \/ /\ contactsTable' = updateLastContact(contactsTable, user,
                                                         contact_id, wallClock)
                    /\ lastLog' = withAngle(lastLog, contact_id,
                            [occurred_at |-> wallClock,
                             wasFlagged |-> \E c \in Cached(contact_id) :
                                                c.needsAttention])
                    /\ convMutation' = [call EXCEPT !.updated = TRUE]
                 \/ /\ UNCHANGED <<contactsTable, lastLog>>
                    /\ convMutation' = call
              /\ contactsQuery' = invalidateContacts(contactsQuery)
              /\ IF item.type = "opportunity" /\ item.opportunity # 0
                 THEN /\ panelPc' = [step |-> "complete", opportunity |-> item.opportunity]
                      /\ toast' = Notice("Conversation logged successfully")
                 ELSE /\ panelPc' = NoComplete
                      /\ toast' = Notice("Marked as done")
              /\ UNCHANGED unhandledRejection
    /\ UNCHANGED <<wallClock, user>>
    /\ UNCHANGED <<oppTable, oppNextId, oppQuery, oppCall, panelMounted, dismissedIds,
                   generatingFor, generatedMessages>>
    /\ UNCHANGED <<clsVars, graphVars>>
    /\ UNCHANGED <<recVars, edgeVars, extraVars>>

\* handleComplete, first await: createConversation.mutateAsync for item.contact
handleComplete ==
    /\ panelMounted
    /\ panelPc.step = "idle"
    /\ Len(conversationsTable) < MaxConversations
    /\ \E k \in 1..Len(shownItems) :
        LET item == shownItems[k]
            contact_id == item.contact[1].id
            call == [status |-> "success", step |-> "none", contact_id |-> contact_id,
                     occurred_at |-> wallClock, updated |-> FALSE]
        IN
        IF Len(item.contact) = 0
        THEN \* if (item.contact) is false: no conversation is logged
           /\ IF item.type = "opportunity" /\ item.opportunity # 0
              THEN /\ panelPc' = [step |-> "complete", opportunity |-> item.opportunity]
                   /\ UNCHANGED toast
              ELSE /\ panelPc' = NoComplete
                   /\ toast' = Notice("Marked as done")
           /\ UNCHANGED <<conversationsTable, contactsTable, contactsQuery, lastLog,
                          convMutation, unhandledRejection>>
        ELSE
        /\ Len(item.contact) > 0
        /\ \/ \* not authenticated or the insert fails: onError, the promise rejects
              /\ convMutation' = [call EXCEPT !.status = "error"]
              /\ toast' = Destructive("Failed to log conversation")
              /\ unhandledRejection' = "handleComplete"
              /\ UNCHANGED <<conversationsTable, contactsTable, contactsQuery, lastLog,
                             panelPc>>
           \/ \* the conversation is stored; the contact update applies or is lost
              /\ user # NoUser
              /\ conversationsTable' = Append(conversationsTable,
                    [contact_id |-> contact_id, user_id |-> spreadUserId("", user),
                     occurred_at |-> wallClock])
              /\ \/ /\ contactsTable' = updateLastContact(contactsTable, user,
                                                         contact_id, wallClock)
                    /\ lastLog' = withAngle(lastLog, contact_id,
                            [occurred_at |-> wallClock,
                             wasFlagged |-> \E c \in Cached(contact_id) :
                                                c.needsAttention])
                    /\ convMutation' = [call EXCEPT !.updated = TRUE]
                 \/ /\ UNCHANGED <<contactsTable, lastLog>>
                    /\ convMutation' = call
              /\ contactsQuery' = invalidateContacts(contactsQuery)
              /\ IF item.type = "opportunity" /\ item.opportunity # 0
                 THEN /\ panelPc' = [step |-> "complete", opportunity |-> item.opportunity]
                      /\ toast' = Notice("Conversation logged successfully")
                 ELSE /\ panelPc' = NoComplete
                      /\ toast' = Notice("Marked as done")
              /\ UNCHANGED unhandledRejection
    /\ UNCHANGED <<wallClock, user>>
    /\ UNCHANGED <<oppTable, oppNextId, oppQuery, oppCall, panelMounted, dismissedIds,
                   generatingFor, generatedMessages>>
    /\ UNCHANGED <<clsVars, graphVars>>
    /\ UNCHANGED <<recVars, edgeVars, extraVars>>

\* handleComplete, second await: completeOpportunity.mutateAsync(item.opportunity.id)
handleCompleteOpportunity ==
    /\ panelPc.step = "complete"
    /\ LET id == panelPc.opportunity IN
        \/ /\ OwnRow(id)
           /\ oppTable' = [oppTable EXCEPT ![id] =
                ApplyUpdates(oppTable[id],
                    [k \in {"is_completed", "completed_at"} |->
                        IF k = "is_completed" THEN TRUE ELSE wallClock])]
           /\ oppQuery' = invalidateOpportunities(oppQuery)
           /\ oppCall' = Done("complete", id)
           /\ toast' = Notice("Marked as done")
           /\ UNCHANGED unhandledRejection
        \/ /\ oppCall' = Failed("complete", id)
           /\ toast' = Destructive("Failed to complete")
           /\ unhandledRejection' = "handleComplete"
           /\ UNCHANGED <<oppTable, oppQuery>>
    /\ panelPc' = NoComplete
    /\ UNCHANGED <<oppNextId, panelMounted, dismissedIds, generatingFor, generatedMessages>>
    /\ UNCHANGED <<clsVars, graphVars, dataVars>>
    /\ UNCHANGED <<recVars, edgeVars, extraVars>>

\* handleGenerateMessage up to the await: setGeneratingFor(item.id)
handleGenerateMessage ==
    /\ panelMounted
    /\ generatingFor = <<>>
    /\ \E k \in 1..Len(shownItems) : generatingFor' = <<shownItems[k].id>>
    /\ UNCHANGED <<oppTable, oppNextId, oppQuery, oppCall, toast, panelMounted,
                   dismissedIds, generatedMessages, panelPc, unhandledRejection>>
    /\ UNCHANGED <<clsVars, graphVars, dataVars>>
    /\ UNCHANGED <<recVars, edgeVars, extraVars>>

\* generateMessage.mutateAsync settles: try / catch / finally of handleGenerateMessage
GenerateMessageSettles ==
    /\ panelMounted
    /\ generatingFor # <<>>
    /\ \/ /\ generatedMessages' = generatedMessages \cup {generatingFor[1]}
          /\ oppCall' = Done("generateMessage", 0)
          /\ UNCHANGED toast
       \/ /\ toast' = Destructive("Failed to generate message")
          /\ oppCall' = Failed("generateMessage", 0)
          /\ UNCHANGED generatedMessages
    /\ generatingFor' = <<>>
    /\ UNCHANGED <<oppTable, oppNextId, oppQuery, panelMounted,
                   dismissedIds, panelPc, unhandledRejection>>
    /\ UNCHANGED <<clsVars, graphVars, dataVars>>
    /\ UNCHANGED <<recVars, edgeVars, extraVars>>

-----------------------------------------------------------------------------
(* LogConversationDialog and useVoiceRecorder                                *)

\* useVoiceRecorder of a freshly mounted dialog: mediaRecorderRef (0: null, else
\* the stream of the MediaRecorder), the two useState flags, the getUserMedia
\* calls still pending and whether a stop event is pending
FreshRecorder ==
    [mediaRecorderRef |-> 0, isRecording |-> FALSE, isTranscribing |-> FALSE,
     starting |-> 0, stopping |-> FALSE,
     reading |-> FALSE,     \* the FileReader of onstop is loading
     invoking |-> FALSE,    \* the transcribe-audio request is in flight
     promise |-> "none"]    \* what the last stopRecording() returned: "pending", then
                            \* "null" or "text" once resolved

RecIdle ==
    /\ selectedContact = "null"
    /\ showLogConversation = FALSE
    /\ recorders = <<>>
    /\ tracks = EmptyMap
    /\ recToast = ""

\* a signed-in user with two contacts looks at the network, nothing selected
RecInit ==
    /\ wallClock = 0
    /\ user = UserId
    /\ contactsTable = OppContacts
    /\ conversationsTable = <<>>
    /\ contactsQuery = [data |-> useContactsQueryFn(OppContacts, UserId, 0),
                        fetched |-> TRUE, isInvalidated |-> FALSE,
                        dataUpdatedAt |-> 0]
    /\ convMutation = Idle
    /\ lastLog = EmptyMap
    /\ selectedContact = "null"
    /\ showLogConversation = FALSE
    /\ recorders = <<>>
    /\ tracks = EmptyMap
    /\ recToast = ""

\* the dialog instance that is mounted (the last one created)
Current == Len(recorders)

DialogMounted == selectedContact # "null"

\* the dialog is mounted and open: its buttons can be used
DialogVisible == DialogMounted /\ showLogConversation

\* stream.getTracks().forEach(track => track.stop())
stopTracks(ts, stream) ==
    [x \in DOMAIN ts |-> IF x = stream THEN "ended" ELSE ts[x]]

\* mutant: cancelRecording clears the ref without stopping the tracks
cancelRecording_keepTracks(recorder, ts) ==
    IF recorder.mediaRecorderRef # 0 /\ recorder.isRecording
    THEN [recorder |-> [recorder EXCEPT !.mediaRecorderRef = 0, !.isRecording = FALSE],
          tracks |-> ts]
    ELSE [recorder |-> recorder, tracks |-> ts]

\* cancelRecording: the new hook state and the new state of the tracks
cancelRecording(recorder, ts) ==
    IF recorder.mediaRecorderRef # 0 /\ recorder.isRecording
    THEN [recorder |-> [recorder EXCEPT !.mediaRecorderRef = 0, !.isRecording = FALSE],
          tracks |-> stopTracks(ts, recorder.mediaRecorderRef)]
    ELSE [recorder |-> recorder, tracks |-> ts]

\* Index.handleContactClick: a contact is selected, the dialog component mounts
handleContactClick ==
    /\ ~DialogMounted
    /\ Len(recorders) < MaxMounts
    /\ selectedContact' \in DOMAIN contactsTable
    /\ recorders' = Append(recorders, FreshRecorder)
    /\ UNCHANGED <<showLogConversation, tracks, recToast>>
    /\ UNCHANGED <<clsVars, graphVars, dataVars, oppVars, edgeVars, extraVars>>

\* Index.handleClosePanel: the selection is cleared, the dialog component unmounts
handleClosePanel ==
    /\ DialogMounted
    /\ selectedContact' = "null"
    /\ UNCHANGED <<showLogConversation, recorders, tracks, recToast>>
    /\ UNCHANGED <<clsVars, graphVars, dataVars, oppVars, edgeVars, extraVars>>

\* Index.handleLogConversation
handleLogConversation ==
    /\ DialogMounted
    /\ showLogConversation' = TRUE
    /\ UNCHANGED <<selectedContact, recorders, tracks, recToast>>
    /\ UNCHANGED <<clsVars, graphVars, dataVars, oppVars, edgeVars, extraVars>>

\* handleVoiceRecord: the Voice / Stop button (disabled while transcribing)
handleVoiceRecord ==
    /\ DialogVisible
    /\ ~recorders[Current].isTranscribing
    /\ IF recorders[Current].isRecording
       THEN \* stopRecording: resolve(null) without a recorder, else stop() it
            recorders' = [recorders EXCEPT
                            ![Current].stopping = recorders[Current].mediaRecorderRef # 0,
                            ![Current].promise =
                                IF recorders[Current].mediaRecorderRef # 0
                                THEN "pending" ELSE "null"]
       ELSE \* startRecording: getUserMedia is called
            /\ Cardinality(DOMAIN tracks) + recorders[Current].starting < MaxStreams
            /\ recorders' = [recorders EXCEPT ![Current].starting = @ + 1]
    /\ UNCHANGED <<selectedContact, showLogConversation, tracks, recToast>>
    /\ UNCHANGED <<clsVars, graphVars, dataVars, oppVars, edgeVars, extraVars>>

\* startRecording continues once getUserMedia settles (for any instance, mounted or not)
GetUserMediaSettles ==
    /\ \E inst \in 1..Len(recorders) :
        /\ recorders[inst].starting > 0
        /\ \/ LET stream == Cardinality(DOMAIN tracks) + 1     \* granted
              IN  /\ tracks' = [x \in DOMAIN tracks \cup {stream} |->
                                    IF x = stream THEN "live" ELSE tracks[x]]
                  /\ recorders' = [recorders EXCEPT
                                    ![inst].starting = @ - 1,
                                    ![inst].mediaRecorderRef = stream,
                                    ![inst].isRecording = TRUE]
                  /\ UNCHANGED recToast
           \/ /\ recorders' = [recorders EXCEPT ![inst].starting = @ - 1]   \* denied
              /\ recToast' = "Microphone access denied"
              /\ UNCHANGED tracks
    /\ UNCHANGED <<selectedContact, showLogConversation>>
    /\ UNCHANGED <<clsVars, graphVars, dataVars, oppVars, edgeVars, extraVars>>

\* the recorder's onstop handler
OnStop ==
    /\ \E inst \in 1..Len(recorders) :
        /\ recorders[inst].stopping
        /\ tracks' = IF recorders[inst].mediaRecorderRef # 0
                     THEN stopTracks(tracks, recorders[inst].mediaRecorderRef)
                     ELSE tracks
        /\ \/ \* reader.readAsDataURL(audioBlob) starts the read
              recorders' = [recorders EXCEPT ![inst].stopping = FALSE,
                                             ![inst].isRecording = FALSE,
                                             ![inst].isTranscribing = TRUE,
                                             ![inst].reading = TRUE]
           \/ \* the try block throws: the catch resets the flag and resolves null
              recorders' = [recorders EXCEPT ![inst].stopping = FALSE,
                                             ![inst].isRecording = FALSE,
                                             ![inst].isTranscribing = FALSE,
                                             ![inst].promise = "null"]
    /\ UNCHANGED <<selectedContact, showLogConversation, recToast>>
    /\ UNCHANGED <<clsVars, graphVars, dataVars, oppVars, edgeVars, extraVars>>

\* reader.onloadend: loadend follows a load and an error alike. After an error
\* reader.result is null and `.split` throws before the inner try is entered: the
\* handler's promise rejects, nothing is reset and nothing resolves.
ReaderLoadEnd ==
    /\ \E inst \in 1..Len(recorders) :
        /\ recorders[inst].reading
        /\ \/ recorders' = [recorders EXCEPT ![inst].reading = FALSE,
                                             ![inst].invoking = TRUE]
           \/ recorders' = [recorders EXCEPT ![inst].reading = FALSE]
    /\ UNCHANGED <<selectedContact, showLogConversation, tracks, recToast>>
    /\ UNCHANGED <<clsVars, graphVars, dataVars, oppVars, edgeVars, extraVars>>

\* the transcription request settles and stopRecording's promise resolves
TranscribeSettles ==
    /\ \E inst \in 1..Len(recorders) :
        /\ recorders[inst].invoking
        /\ \/ /\ recorders' = [recorders EXCEPT ![inst].invoking = FALSE,
                                                ![inst].isTranscribing = FALSE,
                                                ![inst].promise = "text"]
              /\ UNCHANGED recToast
           \/ /\ recorders' = [recorders EXCEPT ![inst].invoking = FALSE,
                                                ![inst].isTranscribing = FALSE,
                                                ![inst].promise = "null"]
              /\ recToast' = "Transcription failed"
    /\ UNCHANGED <<selectedContact, showLogConversation, tracks>>
    /\ UNCHANGED <<clsVars, graphVars, dataVars, oppVars, edgeVars, extraVars>>

\* Dialog.onOpenChange(false): the overlay or the close button of the dialog
DialogDismiss ==
    /\ DialogVisible
    /\ LET after == IF recorders[Current].isRecording
                    THEN cancelRecording(recorders[Current], tracks)
                    ELSE [recorder |-> recorders[Current], tracks |-> tracks]
       IN  /\ recorders' = [recorders EXCEPT ![Current] = after.recorder]
           /\ tracks' = after.tracks
    /\ showLogConversation' = FALSE
    /\ UNCHANGED <<selectedContact, recToast>>
    /\ UNCHANGED <<clsVars, graphVars, dataVars, oppVars, edgeVars, extraVars>>

\* the Cancel button: onClick={() => onOpenChange(false)}, the prop of Index
DialogCancelButton ==
    /\ DialogVisible
    /\ showLogConversation' = FALSE
    /\ UNCHANGED <<selectedContact, recorders, tracks, recToast>>
    /\ UNCHANGED <<clsVars, graphVars, dataVars, oppVars, edgeVars, extraVars>>

\* onSubmit: createConversation.mutateAsync, then reset() and onOpenChange(false)
DialogSubmit ==
    /\ DialogVisible
    /\ Len(conversationsTable) < MaxConversations
    /\ \E occurred_at \in OccurredAt(wallClock) :
        LET call == [status |-> "success", step |-> "none",
                     contact_id |-> selectedContact,
                     occurred_at |-> occurred_at, updated |-> FALSE]
        IN
        \/ /\ convMutation' = [call EXCEPT !.status = "error"]   \* thrown, caught
           /\ UNCHANGED <<conversationsTable, contactsTable, contactsQuery, lastLog,
                          showLogConversation>>
        \/ /\ user # NoUser
           /\ conversationsTable' = Append(conversationsTable,
                [contact_id |-> selectedContact, user_id |-> user,
                 occurred_at |-> occurred_at])
           /\ \/ /\ contactsTable' = updateLastContact(contactsTable, user,
                                                      selectedContact, occurred_at)
                 /\ lastLog' = withAngle(lastLog, selectedContact,
                        [occurred_at |-> occurred_at,
                         wasFlagged |-> \E c \in Cached(selectedContact) :
                                            c.needsAttention])
                 /\ convMutation' = [call EXCEPT !.updated = TRUE]
              \/ /\ UNCHANGED <<contactsTable, lastLog>>
                 /\ convMutation' = call
           /\ contactsQuery' = invalidateContacts(contactsQuery)
           /\ showLogConversation' = FALSE
    /\ UNCHANGED <<wallClock, user>>
    /\ UNCHANGED <<selectedContact, recorders, tracks, recToast>>
    /\ UNCHANGED <<clsVars, graphVars, oppVars, edgeVars, extraVars>>

RecNext ==
    \/ handleContactClick
    \/ handleClosePanel
    \/ handleLogConversation
    \/ handleVoiceRecord
    \/ GetUserMediaSettles
    \/ OnStop
    \/ ReaderLoadEnd
    \/ TranscribeSettles
    \/ DialogDismiss
    \/ DialogCancelButton
    \/ DialogSubmit

-----------------------------------------------------------------------------
(* The edge functions generate-message, search-contacts and transcribe-audio *)

\* the most fetches to the gateway that are followed
MaxUpstream == 2

NoRequest ==
    [fn |-> "none", method |-> "none", body |-> "none", query |-> "none",
     contacts |-> "none", action |-> "none", phase |-> "none"]

NoResponse == [status |-> 0, body |-> "none"]

EdgeIdle ==
    /\ apiKeyConfigured = FALSE
    /\ edgeRequest = NoRequest
    /\ edgeResponse = NoResponse
    /\ upstreamCalls = 0

\* the functions are deployed with or without LOVABLE_API_KEY in their environment
EdgeInit ==
    /\ apiKeyConfigured \in BOOLEAN
    /\ edgeRequest = NoRequest
    /\ edgeResponse = NoResponse
    /\ upstreamCalls = 0

Methods == {"OPTIONS", "POST"}

\* request bodies: text req.json() rejects, or JSON with the fields a handler reads
GenerateRequests ==
    [fn : {"generate-message"}, method : Methods, body : {"malformed", "json"},
     query : {"none"}, contacts : {"none"}, action : {"none"}, phase : {"received"}]

SearchRequests ==
    [fn : {"search-contacts"}, method : Methods, body : {"malformed", "json"},
     query : {"missing", "ceo techcorp", "other"},
     contacts : {"missing", "empty", "with ceo", "without ceo"},
     action : {"none"}, phase : {"received"}]

TranscribeRequests ==
    [fn : {"transcribe-audio"}, method : Methods, body : {"malformed", "json"},
     query : {"none"}, contacts : {"none"},
     action : {"summarize", "transcribe", "other"}, phase : {"received"}]

\* what the gateway answers: response.ok with the content of the first choice,
\* or a status that is not ok
UpstreamResults ==
    [ok : {TRUE}, status : {200}, content : {"", "text", "json"}]
    \cup [ok : {FALSE}, status : {429, 402, 500}, content : {""}]

\* return new Response(body, { status })
Respond(req, status, body) ==
    /\ edgeRequest' = [req EXCEPT !.phase = "done"]
    /\ edgeResponse' = [status |-> status, body |-> body]
    /\ UNCHANGED upstreamCalls

\* await fetch('https://ai.gateway.lovable.dev/v1/chat/completions', ...)
CallUpstream(req) ==
    /\ upstreamCalls < MaxUpstream
    /\ upstreamCalls' = upstreamCalls + 1
    /\ edgeRequest' = [req EXCEPT !.phase = "awaiting"]
    /\ edgeResponse' = NoResponse

\* generate-message, up to the fetch
generateMessageServe ==
    /\ edgeRequest.phase # "awaiting"
    /\ \E req \in GenerateRequests :
        IF req.method = "OPTIONS" THEN Respond(req, 200, "cors")
        ELSE IF req.body = "malformed" THEN Respond(req, 500, "error")
        ELSE IF ~apiKeyConfigured
             THEN Respond(req, 500, "LOVABLE_API_KEY is not configured")
        ELSE CallUpstream(req)
    /\ UNCHANGED apiKeyConfigured
    /\ UNCHANGED <<clsVars, graphVars, dataVars, oppVars, recVars, extraVars>>

\* generate-message, from the gateway's answer on
generateMessageUpstream ==
    /\ edgeRequest.phase = "awaiting"
    /\ edgeRequest.fn = "generate-message"
    /\ \E response \in UpstreamResults :
        IF ~response.ok
        THEN IF response.status = 429
             THEN Respond(edgeRequest, 429, "Rate limit exceeded, please try again later")
             ELSE IF response.status = 402
             THEN Respond(edgeRequest, 402, "Payment required, please add credits")
             ELSE Respond(edgeRequest, 500, "AI gateway error")
        ELSE IF response.content = ""
             THEN Respond(edgeRequest, 500, "No message generated")
             ELSE Respond(edgeRequest, 200, "message")
    /\ UNCHANGED apiKeyConfigured
    /\ UNCHANGED <<clsVars, graphVars, dataVars, oppVars, recVars, extraVars>>

\* search-contacts, up to the fetch
searchContactsServe ==
    /\ edgeRequest.phase # "awaiting"
    /\ \E req \in SearchRequests :
        IF req.method = "OPTIONS" THEN Respond(req, 200, "cors")
        ELSE IF req.body = "malformed" THEN Respond(req, 500, "error")
        ELSE IF req.contacts \in {"missing", "empty"}
             THEN Respond(req, 200, "You don't have any contacts yet")
        ELSE IF req.query = "missing"  \* query.toLowerCase() throws
             THEN Respond(req, 500, "error")
        ELSE IF req.query = "ceo techcorp" /\ req.contacts = "with ceo"
             THEN Respond(req, 200, "That's Sarah Johnson")
        ELSE IF ~apiKeyConfigured THEN Respond(req, 500, "error")
        ELSE CallUpstream(req)
    /\ UNCHANGED apiKeyConfigured
    /\ UNCHANGED <<clsVars, graphVars, dataVars, oppVars, recVars, extraVars>>

\* search-contacts, from the gateway's answer on
searchContactsUpstream ==
    /\ edgeRequest.phase = "awaiting"
    /\ edgeRequest.fn = "search-contacts"
    /\ \E response \in UpstreamResults :
        IF ~response.ok THEN Respond(edgeRequest, 500, "error")
        ELSE IF response.content = "json" THEN Respond(edgeRequest, 200, "result")
        ELSE Respond(edgeRequest, 200, "I had trouble understanding that")
    /\ UNCHANGED apiKeyConfigured
    /\ UNCHANGED <<clsVars, graphVars, dataVars, oppVars, recVars, extraVars>>

\* transcribe-audio, up to the fetch
transcribeAudioServe ==
    /\ edgeRequest.phase # "awaiting"
    /\ \E req \in TranscribeRequests :
        IF req.method = "OPTIONS" THEN Respond(req, 200, "cors")
        ELSE IF req.body = "malformed" THEN Respond(req, 500, "error")
        ELSE IF ~apiKeyConfigured
             THEN Respond(req, 500, "LOVABLE_API_KEY is not configured")
        ELSE IF req.action \in {"summarize", "transcribe"} THEN CallUpstream(req)
        ELSE Respond(req, 400, "Invalid action")
    /\ UNCHANGED apiKeyConfigured
    /\ UNCHANGED <<clsVars, graphVars, dataVars, oppVars, recVars, extraVars>>

\* transcribe-audio, from the gateway's answer on
transcribeAudioUpstream ==
    /\ edgeRequest.phase = "awaiting"
    /\ edgeRequest.fn = "transcribe-audio"
    /\ \E response \in UpstreamResults :
        IF edgeRequest.action = "summarize"
        THEN IF ~response.ok
             THEN IF response.status = 429
                  THEN Respond(edgeRequest, 429, "Rate limit exceeded")
                  ELSE IF response.status = 402
                  THEN Respond(edgeRequest, 402, "Payment required")
                  ELSE Respond(edgeRequest, 500, "AI gateway error")
             ELSE Respond(edgeRequest, 200, "summary")
        ELSE IF ~response.ok THEN Respond(edgeRequest, 500, "Transcription failed")
             ELSE Respond(edgeRequest, 200, "transcription")
    /\ UNCHANGED apiKeyConfigured
    /\ UNCHANGED <<clsVars, graphVars, dataVars, oppVars, recVars, extraVars>>

EdgeNext ==
    \/ generateMessageServe
    \/ generateMessageUpstream
    \/ searchContactsServe
    \/ searchContactsUpstream
    \/ transcribeAudioServe
    \/ transcribeAudioUpstream

-----------------------------------------------------------------------------
(* One call of seededRandom, iteration by iteration *)

\* the longest seed drawn from SeedAlphabet
MaxSeedLen == 3

SeedAlphabet == {"a", "7", "u"}

RECURSIVE StringsOfLen(_)
StringsOfLen(n) ==
    IF n = 0 THEN {<<>>}
    ELSE {Append(w, ch) : w \in StringsOfLen(n - 1), ch \in SeedAlphabet}

RadiusSuffix == <<"r", "a", "d", "i", "u", "s">>

\* an id whose hash is 534483448
OneId == <<"2", "c", "7", "3", "e", "2", "2", "0">>

\* contact ids, and the seeds positionedContacts builds from them
HashIds ==
    UNION {StringsOfLen(n) : n \in 0..MaxSeedLen}
    \cup {GraphIds[k] : k \in 1..Len(GraphIds)}
    \cup {OneId}

HashSeeds == HashIds \cup {id \o RadiusSuffix : id \in HashIds}

\* the integers n in 1..2^31 for which Math.sin(n) is 1 or -1 as a double:
\* n is within 1.05e-8 of an odd multiple of pi/2, so that 1 - |sin n| < 2^-54
SineRoundsToOne ==
    {122925461, 288632526, 368776383, 534483448, 700190513, 780334370, 946041435,
     1191892357, 1357599422, 1437743279, 1603450344, 1769157409, 1849301266,
     2015008331}

\* Math.abs(Math.sin(hash)) as a double, by where it lies in [0, 1];
\* the argument is named by -|hash|
AbsSin(random) ==
    IF random.sinArg = 0 THEN "0"
    ELSE IF \E n \in SineRoundsToOne : random.sinArg = -n THEN "1"
    ELSE "between 0 and 1"

HashIdle ==
    /\ hashSeed = <<>>
    /\ hashI = 0
    /\ hashAcc = 0
    /\ hashPc = "idle"
    /\ hashResult = NoRand

\* let hash = 0; i = 0
HashInit ==
    /\ hashSeed \in HashSeeds
    /\ hashI = 0
    /\ hashAcc = 0
    /\ hashPc = "loop"
    /\ hashResult = NoRand

\* one pass of the for loop
HashLoop ==
    /\ hashPc = "loop"
    /\ hashI < Len(hashSeed)
    /\ hashAcc' = HashStep(hashAcc, charCodeAt(hashSeed[hashI + 1]))
    /\ hashI' = hashI + 1
    /\ UNCHANGED <<hashSeed, hashPc, hashResult>>
    /\ UNCHANGED <<clsVars, graphVars, dataVars, oppVars, recVars, edgeVars>>
    /\ UNCHANGED <<delVars, lateVars>>

\* return Math.abs(Math.sin(hash))
HashReturn ==
    /\ hashPc = "loop"
    /\ hashI >= Len(hashSeed)
    /\ hashResult' = [sinArg |-> NegAbs(hashAcc)]
    /\ hashPc' = "returned"
    /\ UNCHANGED <<hashSeed, hashI, hashAcc>>
    /\ UNCHANGED <<clsVars, graphVars, dataVars, oppVars, recVars, edgeVars>>
    /\ UNCHANGED <<delVars, lateVars>>

HashNext == HashLoop \/ HashReturn

-----------------------------------------------------------------------------
(* useDeleteConversation, called from the contact panel *)

NoDelete == [status |-> "idle", contact_id |-> "", deleted |-> FALSE]

DelIdle ==
    /\ delMutation = NoDelete
    /\ conversationsStale = {}

\* the sequence without its k-th element
RemoveAt(seq, k) == SubSeq(seq, 1, k - 1) \o SubSeq(seq, k + 1, Len(seq))

\* mutant: the delete recomputes last_contact_at from the conversations left
deleteConversationEffect_recompute(table, rows, contact_id) ==
    LET left == {rows[j].occurred_at : j \in {n \in 1..Len(rows) :
                                                rows[n].contact_id = contact_id}}
        latest == IF left = {} THEN NULL
                  ELSE CHOOSE x \in left : \A y \in left : y <= x
    IN  [id \in DOMAIN table |->
            IF id = contact_id THEN [table[id] EXCEPT !.last_contact_at = latest]
            ELSE table[id]]

\* what the delete does to the contacts table, given the conversations left: nothing
deleteConversationEffect(table, rows, contact_id) == table

\* handleDeleteConversation -> deleteConversation.mutateAsync({ id, contactId }):
\* from('conversations').delete().eq('id', id) under the row-level policy
\* auth.uid() = user_id, then onSuccess or onError
DeleteConversation ==
    /\ convMutation.status # "pending"
    /\ \E k \in 1..Len(conversationsTable) :
        LET row == conversationsTable[k]
            call == [status |-> "success", contact_id |-> row.contact_id,
                     deleted |-> TRUE]
        IN
        \/ \* the row is deleted
           /\ user = row.user_id
           /\ conversationsTable' = RemoveAt(conversationsTable, k)
           /\ contactsTable' = deleteConversationEffect(contactsTable,
                                    RemoveAt(conversationsTable, k), row.contact_id)
           /\ delMutation' = call
           /\ conversationsStale' = conversationsStale \cup {row.contact_id}
        \/ \* the policy hides the row: nothing is deleted and no error is returned
           /\ user # row.user_id
           /\ delMutation' = [call EXCEPT !.deleted = FALSE]
           /\ conversationsStale' = conversationsStale \cup {row.contact_id}
           /\ UNCHANGED <<conversationsTable, contactsTable>>
        \/ \* the request returns an error: thrown, onError
           /\ delMutation' = [call EXCEPT !.status = "error", !.deleted = FALSE]
           /\ UNCHANGED <<conversationsTable, contactsTable, conversationsStale>>
    /\ UNCHANGED <<wallClock, user, contactsQuery, convMutation, lastLog>>
    /\ UNCHANGED <<clsVars, graphVars, oppVars, recVars, edgeVars, hashVars, lateVars>>

\* the contact panel is open on stored contacts, nothing logged yet
DelInit ==
    /\ wallClock = 2 * DayLen
    /\ user = UserId
    /\ contactsTable = OppContacts
    /\ conversationsTable = <<>>
    /\ contactsQuery = [data |-> useContactsQueryFn(OppContacts, UserId, 2 * DayLen),
                        fetched |-> TRUE, isInvalidated |-> FALSE,
                        dataUpdatedAt |-> 2 * DayLen]
    /\ convMutation = Idle
    /\ lastLog = EmptyMap
    /\ delMutation = NoDelete
    /\ conversationsStale = {}

-----------------------------------------------------------------------------
(* ContactNode: press, move, release, click                                  *)

\* mousemove events followed in one gesture
MaxMoves == 3

\* getBoundingClientRect() of the graph container, the button's parent
ParentRect == [left |-> 10, top |-> 20, width |-> 900, height |-> 900]

\* the prop `radius`
NodeRadius == 100

\* where the button is pressed: points of its 48px face at least 5px inside it
PressPositions == {<<560, 470>>, <<460, 570>>}

\* where the mouse goes: 4, 5 and 6 pixels from a press point, and further away
Positions ==
    PressPositions \cup {<<564, 473>>, <<565, 475>>, <<566, 470>>, <<560, 464>>,
                         <<360, 470>>, <<460, 470>>}

NoPos == <<-1, -1>>

\* no setCurrentX / setCurrentY yet: the state still holds the props x, y
PropsPos == [angle |-> <<0, 0>>, radius |-> 0]

Abs(n) == IF n < 0 THEN -n ELSE n

Max2(a, b) == IF a >= b THEN a ELSE b

RECURSIVE Gcd(_, _)
Gcd(a, b) == IF b = 0 THEN a ELSE Gcd(b, a % b)

\* Math.atan2(y, x), the angle written as the direction <<y, x>> in lowest terms;
\* atan2(0, 0) is 0, the angle of <<0, 1>>
atan2(y, x) ==
    IF x = 0 /\ y = 0 THEN <<0, 1>>
    ELSE LET g == Gcd(Abs(y), Abs(x)) IN <<y \div g, x \div g>>

exceedsThreshold_both(deltaX, deltaY) == deltaX > 5 /\ deltaY > 5

\* deltaX > 5 || deltaY > 5
exceedsThreshold(deltaX, deltaY) == deltaX > 5 \/ deltaY > 5

NodeIdle ==
    /\ nodePc = "idle"
    /\ pointer = <<460, 470>>
    /\ startPos = NoPos
    /\ hasDraggedRef = FALSE
    /\ isDragging = FALSE
    /\ docListeners = {}
    /\ currentPos = PropsPos
    /\ angleCalls = <<>>
    /\ onClickCalls = 0
    /\ maxDelta = 0
    /\ nodeMoves = 0

NodeInit == NodeIdle

\* handleMouseDown
handleMouseDown ==
    /\ nodePc = "idle"
    /\ \E pos \in PressPositions :
        /\ pointer' = pos
        /\ startPos' = pos
    /\ hasDraggedRef' = FALSE
    /\ docListeners' = docListeners \cup {"mousemove", "mouseup"}
    /\ nodePc' = "pressed"
    /\ angleCalls' = <<>>
    /\ onClickCalls' = 0
    /\ maxDelta' = 0
    /\ nodeMoves' = 0
    /\ UNCHANGED <<isDragging, currentPos>>
    /\ UNCHANGED <<clsVars, graphVars, dataVars, oppVars, recVars, edgeVars, hashVars,
                   delVars, chatVars>>

\* the mouse moves; handleMouseMove runs while it is registered on document
handleMouseMove ==
    /\ nodeMoves < MaxMoves
    /\ \E pos \in Positions \ {pointer} :
        LET deltaX == Abs(pos[1] - startPos[1])
            deltaY == Abs(pos[2] - startPos[2])
            dragged == hasDraggedRef \/ exceedsThreshold(deltaX, deltaY)
            centerX == ParentRect.width \div 2
            centerY == ParentRect.height \div 2
            mouseX == pos[1] - ParentRect.left - centerX
            mouseY == pos[2] - ParentRect.top - centerY
            newAngle == atan2(mouseY, mouseX)
        IN
        /\ pointer' = pos
        /\ IF "mousemove" \in docListeners
           THEN /\ hasDraggedRef' = dragged
                /\ isDragging' = (isDragging \/ exceedsThreshold(deltaX, deltaY))
                /\ IF dragged
                   THEN /\ currentPos' = [angle |-> newAngle, radius |-> NodeRadius]
                        /\ angleCalls' = Append(angleCalls, newAngle)
                   ELSE UNCHANGED <<currentPos, angleCalls>>
                /\ maxDelta' = Max2(maxDelta, Max2(deltaX, deltaY))
                /\ nodeMoves' = nodeMoves + 1
           ELSE UNCHANGED <<hasDraggedRef, isDragging, currentPos, angleCalls, maxDelta,
                            nodeMoves>>
    /\ UNCHANGED <<nodePc, startPos, docListeners, onClickCalls>>
    /\ UNCHANGED <<clsVars, graphVars, dataVars, oppVars, recVars, edgeVars, hashVars,
                   delVars, chatVars>>

\* handleMouseUp
handleMouseUp ==
    /\ nodePc = "pressed"
    /\ "mouseup" \in docListeners
    /\ isDragging' = FALSE
    /\ docListeners' = docListeners \ {"mousemove", "mouseup"}
    /\ nodePc' = "released"
    /\ UNCHANGED <<pointer, startPos, hasDraggedRef, currentPos, angleCalls, onClickCalls,
                   maxDelta, nodeMoves>>
    /\ UNCHANGED <<clsVars, graphVars, dataVars, oppVars, recVars, edgeVars, hashVars,
                   delVars, chatVars>>

\* the click after the release, and handleClick. The browser dispatches click on the
\* button when the release is over it too: always after a mouse that stayed within 5px
\* of an inner press point, possibly not after a drag.
handleClick ==
    /\ nodePc = "released"
    /\ \E dispatched \in (IF hasDraggedRef THEN BOOLEAN ELSE {TRUE}) :
        onClickCalls' = IF dispatched /\ ~hasDraggedRef THEN onClickCalls + 1
                        ELSE onClickCalls
    /\ nodePc' = "idle"
    /\ UNCHANGED <<pointer, startPos, hasDraggedRef, isDragging, docListeners, currentPos,
                   angleCalls, maxDelta, nodeMoves>>
    /\ UNCHANGED <<clsVars, graphVars, dataVars, oppVars, recVars, edgeVars, hashVars,
                   delVars, chatVars>>

NodeNext ==
    \/ handleMouseDown
    \/ handleMouseMove
    \/ handleMouseUp
    \/ handleClick

-----------------------------------------------------------------------------
(* NetworkChatInterface: handleSend                                          *)

\* calls of handleSend followed
MaxSends == 3

\* what the input field may hold
ChatInputs == {<<>>, <<" ">>, <<"a">>, <<" ", "b", " ">>, <<" ", " ">>}

\* the contacts of useContacts, by id
ChatContacts == {"c1", "c2"}

\* what search-contacts may answer: an error, no data, or data with or without a
\* message and with matched ids that may not be contacts of the user
SearchResults ==
    [error : {TRUE}, hasData : {FALSE}, message : {""}, matchedIds : {{}}]
    \cup [error : {FALSE}, hasData : {FALSE}, message : {""}, matchedIds : {{}}]
    \cup [error : {FALSE}, hasData : {TRUE}, message : {"", "Here is who I found."},
          matchedIds : {{}, {"c1"}, {"c1", "c2"}, {"c9"}}]

Greeting == "Hi! I can help you find contacts in your network."

ErrorText == "Sorry, I encountered an error while searching. Please try again."

NoneText == "I couldn't find any contacts matching that description."

\* `I found ${n} contact${n > 1 ? 's' : ''} that match your description:`, n = 1 or 2
FoundText(n) ==
    IF n > 1 THEN "I found 2 contacts that match your description:"
    ELSE "I found 1 contact that match your description:"

RECURSIVE trimStart(_)
trimStart(text) ==
    IF Len(text) > 0 /\ text[1] = " " THEN trimStart(Tail(text)) ELSE text

RECURSIVE trimEnd(_)
trimEnd(text) ==
    IF Len(text) > 0 /\ text[Len(text)] = " "
    THEN trimEnd(SubSeq(text, 1, Len(text) - 1)) ELSE text

\* String.prototype.trim
trim(text) == trimEnd(trimStart(text))

canSend_untrimmed(text, loading) == text # <<>> /\ ~loading

\* the guard of handleSend: if (!input.trim() || isLoading) return
canSend(text, loading) == trim(text) # <<>> /\ ~loading

\* the content of the assistant message built from an answer
assistantContent(result) ==
    IF result.error \/ ~result.hasData THEN ErrorText    \* thrown, or data.matchedIds throws
    ELSE LET matchedContacts == ChatContacts \cap result.matchedIds
         IN  IF result.message # "" THEN result.message
             ELSE IF Cardinality(matchedContacts) > 0
                  THEN FoundText(Cardinality(matchedContacts))
                  ELSE NoneText

ChatIdle ==
    /\ messages = <<[role |-> "assistant", content |-> Greeting]>>
    /\ input = <<>>
    /\ isLoading = FALSE
    /\ searchInFlight = 0
    /\ sendCalls = 0

ChatInit == ChatIdle

\* onChange of the input field, which is disabled while isLoading
setInput ==
    /\ ~isLoading
    /\ \E text \in ChatInputs \ {input} : input' = text
    /\ UNCHANGED <<messages, isLoading, searchInFlight, sendCalls>>
    /\ UNCHANGED <<clsVars, graphVars, dataVars, oppVars, recVars, edgeVars, hashVars,
                   delVars, nodeVars>>

\* handleSend up to its await
handleSend ==
    /\ sendCalls < MaxSends
    /\ sendCalls' = sendCalls + 1
    /\ IF canSend(input, isLoading)
       THEN /\ messages' = Append(messages, [role |-> "user", content |-> trim(input)])
            /\ input' = <<>>
            /\ isLoading' = TRUE
            /\ searchInFlight' = searchInFlight + 1
       ELSE UNCHANGED <<messages, input, isLoading, searchInFlight>>
    /\ UNCHANGED <<clsVars, graphVars, dataVars, oppVars, recVars, edgeVars, hashVars,
                   delVars, nodeVars>>

\* the search-contacts call settles: try, catch and finally of handleSend
SearchSettles ==
    /\ searchInFlight > 0
    /\ \E result \in SearchResults :
        messages' = Append(messages, [role |-> "assistant",
                                      content |-> assistantContent(result)])
    /\ isLoading' = FALSE
    /\ searchInFlight' = searchInFlight - 1
    /\ UNCHANGED <<input, sendCalls>>
    /\ UNCHANGED <<clsVars, graphVars, dataVars, oppVars, recVars, edgeVars, hashVars,
                   delVars, nodeVars>>

ChatNext ==
    \/ setInput
    \/ handleSend
    \/ SearchSettles

\* no machine of the last group is running
LateIdle == NodeIdle /\ ChatIdle

\* no machine of this group is running
ExtraIdle == HashIdle /\ DelIdle /\ LateIdle

-----------------------------------------------------------------------------
(* Specifications *)

\* the attention classifier alone
InitAttention == ClsInit /\ GraphIdle /\ DataIdle /\ OppIdle /\ RecIdle /\ EdgeIdle /\ ExtraIdle

SpecAttention == InitAttention /\ [][ClsNext]_vars

\* the network graph alone
InitLayout == GraphInit /\ ClsIdle /\ DataIdle /\ OppIdle /\ RecIdle /\ EdgeIdle /\ ExtraIdle

SpecLayout == InitLayout /\ [][GraphNext]_vars

\* the data layer: tables, the contacts query and the mutations
\* the create hooks together: contacts, conversations, opportunities, the samples
CreateNext ==
    \/ SignOut
    \/ SignIn
    \/ FetchContacts
    \/ CreateContact
    \/ CreateConversationStart
    \/ CreateConversationInsert
    \/ CreateConversationUpdate
    \/ CreateOpportunity
    \/ SeedSampleOpportunities

InitCreate == DataInit /\ ClsIdle /\ GraphIdle /\ OppIdle /\ RecIdle /\ EdgeIdle /\ ExtraIdle

SpecCreate == InitCreate /\ [][CreateNext]_vars

InitNode == NodeInit /\ ClsIdle /\ GraphIdle /\ DataIdle /\ OppIdle /\ RecIdle /\ EdgeIdle
                /\ HashIdle /\ DelIdle /\ ChatIdle

InitChat == ChatInit /\ ClsIdle /\ GraphIdle /\ DataIdle /\ OppIdle /\ RecIdle /\ EdgeIdle
                /\ HashIdle /\ DelIdle /\ NodeIdle

SpecChat == InitChat /\ [][ChatNext]_vars

SpecNode == InitNode /\ [][NodeNext]_vars

\* one dialog and its recorder, with the events the browser owes delivered
StopNext ==
    \/ handleContactClick
    \/ handleLogConversation
    \/ handleVoiceRecord
    \/ GetUserMediaSettles
    \/ OnStop
    \/ ReaderLoadEnd
    \/ TranscribeSettles
    \/ DialogDismiss

InitStop == RecInit /\ ClsIdle /\ GraphIdle /\ OppIdle /\ EdgeIdle /\ ExtraIdle

SpecStop ==
    /\ InitStop
    /\ [][StopNext]_vars
    /\ WF_vars(OnStop)
    /\ WF_vars(ReaderLoadEnd)
    /\ WF_vars(TranscribeSettles)

Init == DataInit /\ ClsIdle /\ GraphIdle /\ OppIdle /\ RecIdle /\ EdgeIdle /\ ExtraIdle

Next == DataNext

Spec == Init /\ [][Next]_vars

\* the opportunities and the action panel
InitOpp == OppInit /\ ClsIdle /\ GraphIdle /\ RecIdle /\ EdgeIdle /\ ExtraIdle

OppNext == OppHooks \/ OppTick \/ SignOut \/ SignIn

SpecOpp == InitOpp /\ [][OppNext]_vars

\* the action panel over the two queries
InitPanel == PanelInit /\ ClsIdle /\ GraphIdle /\ RecIdle /\ EdgeIdle /\ ExtraIdle

PanelNext ==
    \/ FetchOpportunities
    \/ FetchContacts
    \/ handleDismiss
    \/ handleRestore
    \/ PanelUnmount
    \/ PanelMount
    \/ handleComplete
    \/ handleCompleteOpportunity
    \/ handleGenerateMessage
    \/ GenerateMessageSettles

SpecPanel == InitPanel /\ [][PanelNext]_vars

\* the log-conversation dialog and its voice recorder
InitRecorder == RecInit /\ ClsIdle /\ GraphIdle /\ OppIdle /\ EdgeIdle /\ ExtraIdle

SpecRecorder == InitRecorder /\ [][RecNext]_vars

\* the edge functions serving requests
InitEdge == EdgeInit /\ ClsIdle /\ GraphIdle /\ DataIdle /\ OppIdle /\ RecIdle /\ ExtraIdle

\* the data layer with conversations being deleted as well
InitDelete == DelInit /\ ClsIdle /\ GraphIdle /\ OppIdle /\ RecIdle /\ EdgeIdle /\ HashIdle
                /\ LateIdle

DeleteNext ==
    \/ SignOut
    \/ FetchContacts
    \/ CreateConversationStart
    \/ CreateConversationInsert
    \/ CreateConversationUpdate
    \/ DeleteConversation

SpecDelete == InitDelete /\ [][DeleteNext]_vars

SpecEdge == InitEdge /\ [][EdgeNext]_vars

\* seededRandom applied to one seed
InitHash == HashInit /\ ClsIdle /\ GraphIdle /\ DataIdle /\ OppIdle /\ RecIdle /\ EdgeIdle
                /\ DelIdle /\ LateIdle

SpecHash == InitHash /\ [][HashNext]_vars

-----------------------------------------------------------------------------
(* Properties of the attention classifier (SpecAttention) *)

\* the cadence table as the specification states it
TargetDays(tag) ==
    CASE tag = "weekly"    -> 7
      [] tag = "biweekly"  -> 14
      [] tag = "monthly"   -> 30
      [] tag = "quarterly" -> 90
      [] tag = "yearly"    -> 365

CadenceTags == {"weekly", "biweekly", "monthly", "quarterly", "yearly"}

\* the number of whole 24-hour days in the span from `last` to `now`
WholeDays(last, now) ==
    CHOOSE d \in -3..(MaxDay + 1) :
        d * DayLen <= now - last /\ now - last < (d + 1) * DayLen

\* the smallest integer d with d >= 0.8 * TargetDays(tag)
SwitchDay(tag) ==
    CHOOSE d \in 0..TargetDays(tag) :
        /\ 5 * d >= 4 * TargetDays(tag)
        /\ \A e \in 0..(d - 1) : 5 * e < 4 * TargetDays(tag)

\* C1: for a contact with a non-null last_contact_at and a cadence of the table,
\* calculateNeedsAttention returns true iff the whole number of elapsed days is
\* at least 0.8 times the cadence's target day count.
C1_AttentionRule ==
    (clsPc = "fresh"
        /\ clsContact.last_contact_at # NULL
        /\ clsContact.contact_frequency \in CadenceTags)
    => (clsNeedsAttention
        <=> 5 * WholeDays(clsContact.last_contact_at, clsNow)
                >= 4 * TargetDays(clsContact.contact_frequency))

\* C1 witness: a monthly contact read 23 days 23 hours 59 minutes 59 seconds
\* after its last contact counts 23 days and is not flagged.
C1_Witness ==
    /\ clsPc = "fresh"
    /\ clsContact.contact_frequency = "monthly"
    /\ clsContact.last_contact_at = 0
    /\ clsNow = 24 * DayLen - 1
    /\ ~clsNeedsAttention

\* C2: a contact whose last_contact_at is null needs attention whatever its
\* layer and whatever its contact_frequency, 'none' included.
C2_NullAlwaysNeedsAttention ==
    (clsPc = "fresh" /\ clsContact.last_contact_at = NULL) => clsNeedsAttention

\* C2 witness: a never-contacted distant contact with cadence 'none' was read
\* late in the year and is flagged.
C2_Witness ==
    /\ clsPc = "fresh"
    /\ clsContact.last_contact_at = NULL
    /\ clsContact.contact_frequency = "none"
    /\ clsContact.layer = "distant"
    /\ clsNow > 200 * DayLen
    /\ clsNeedsAttention

\* C3: with the row fixed, needsAttention is monotone in the clock: once a read
\* returned true every later read returns true; a read returns true exactly
\* from the smallest whole day d with d >= 0.8 * target on; for a monthly
\* contact that day is 24 (false at 23 elapsed days, true at 24).
C3_MonotoneSwitch ==
    /\ [][(clsPc # "idle" /\ clsNeedsAttention) => clsNeedsAttention']_vars
    /\ [](  (clsPc = "fresh"
                /\ clsContact.last_contact_at # NULL
                /\ clsContact.contact_frequency \in CadenceTags)
            => (clsNeedsAttention
                <=> WholeDays(clsContact.last_contact_at, clsNow)
                        >= SwitchDay(clsContact.contact_frequency)))
    /\ [](  (clsPc = "fresh"
                /\ clsContact.contact_frequency = "monthly"
                /\ clsContact.last_contact_at = 0)
            => /\ (clsNow \div DayLen = 23 => ~clsNeedsAttention)
               /\ (clsNow \div DayLen = 24 => clsNeedsAttention))

\* C3 witness: a monthly contact read exactly 24 days after its last contact,
\* the first instant at which it is flagged.
C3_Witness ==
    /\ clsPc = "fresh"
    /\ clsContact.contact_frequency = "monthly"
    /\ clsContact.last_contact_at = 0
    /\ clsNow = 24 * DayLen
    /\ clsNeedsAttention

-----------------------------------------------------------------------------
(* Properties of the layer drift and the radial layout (SpecLayout) *)

\* the layer order as the specification states it
LayerRank(l) ==
    CASE l = "vip"        -> 0
      [] l = "inner"      -> 1
      [] l = "regular"    -> 2
      [] l = "occasional" -> 3
      [] l = "distant"    -> 4

NextOutward(l) ==
    CASE l = "vip"        -> "inner"
      [] l = "inner"      -> "regular"
      [] l = "regular"    -> "occasional"
      [] l = "occasional" -> "distant"

\* the outer radius of each ring
RingOuter(l) == 80 * (LayerRank(l) + 1)

\* the radius the specification gives a drifting contact, by nominal layer
DriftRadius(l) ==
    CASE l = "vip"        -> 160
      [] l = "inner"      -> 240
      [] l = "regular"    -> 320
      [] l = "occasional" -> 400
      [] l = "distant"    -> 400

InSeq(x, seq) == \E k \in 1..Len(seq) : seq[k] = x

\* C4: a contact whose nominal layer is not 'distant' is displayed one layer
\* further out when it needs attention and in its nominal layer when it does
\* not, in the layout and in the grouping by layer alike.
C4_DriftOneLayerOutward ==
    mounted =>
        \A i \in DOMAIN positioned :
            LET c == positioned[i].contact
                shown == IF c.needsAttention THEN NextOutward(c.layer) ELSE c.layer
            IN  c.layer # "distant"
                => /\ positioned[i].effectiveLayer = shown
                   /\ InSeq(c, contactsByLayer(contacts)[shown])

\* C4 witness: after a change of the contact list a vip that needs attention
\* is laid out in 'inner', next to an occasional contact that does not need
\* attention and keeps its layer.
C4_Witness ==
    /\ mounted
    /\ lastOp = "props"
    /\ \E i, j \in DOMAIN positioned :
        /\ positioned[i].contact.layer = "vip"
        /\ positioned[i].contact.needsAttention
        /\ positioned[i].effectiveLayer = "inner"
        /\ positioned[j].contact.layer = "occasional"
        /\ ~positioned[j].contact.needsAttention
        /\ positioned[j].effectiveLayer = "occasional"

\* C5: drift saturates: a 'distant' contact is displayed in 'distant' whether
\* or not it needs attention, and every effective layer is one of the five
\* layers, at the nominal index or the nominal index + 1.
C5_DriftSaturates ==
    mounted =>
        \A i \in DOMAIN positioned :
            LET c == positioned[i].contact
                e == positioned[i].effectiveLayer
            IN  /\ (c.layer = "distant" => e = "distant")
                /\ e \in {"vip", "inner", "regular", "occasional", "distant"}
                /\ LayerRank(e) \in {LayerRank(c.layer), LayerRank(c.layer) + 1}

\* C5 witness: after a change of the contact list a 'distant' contact that
\* needs attention is laid out in 'distant'.
C5_Witness ==
    /\ mounted
    /\ lastOp = "props"
    /\ \E i \in DOMAIN positioned :
        /\ positioned[i].contact.layer = "distant"
        /\ positioned[i].contact.needsAttention
        /\ positioned[i].effectiveLayer = "distant"

\* C6: a contact that needs attention is placed at exactly the outer radius of
\* its effective ring (vip 160, inner 240, regular 320, occasional 400,
\* distant 400), with or without a dragged angle.
C6_DriftingRadius ==
    mounted =>
        \A i \in DOMAIN positioned :
            LET c == positioned[i].contact
                r == positioned[i].radius
            IN  c.needsAttention
                => /\ r.coef10 = 0
                   /\ r.const10 = 10 * RingOuter(positioned[i].effectiveLayer)
                   /\ r.const10 = 10 * DriftRadius(c.layer)

\* C6 witness: a drifting vip with a dragged angle sits at radius 160 beside a
\* drifting occasional contact without one at radius 400.
C6_Witness ==
    /\ mounted
    /\ \E i, j \in DOMAIN positioned :
        /\ positioned[i].contact.layer = "vip"
        /\ positioned[i].contact.needsAttention
        /\ positioned[i].contact.id \in DOMAIN contactAngles
        /\ positioned[i].radius.const10 = 1600
        /\ positioned[j].contact.layer = "occasional"
        /\ positioned[j].contact.needsAttention
        /\ positioned[j].contact.id \notin DOMAIN contactAngles
        /\ positioned[j].radius.const10 = 4000

RadiusFollowsAttention(p) ==
    IF p.contact.needsAttention
    THEN p.radius.coef10 = 0 /\ p.radius.const10 = 10 * RingOuter(p.effectiveLayer)
    ELSE p.radius.coef10 > 0

\* C8 as stated: after handleAngleChange(id, a) every later layout uses a for
\* that contact until a later handleAngleChange for the same id; the radius
\* follows the contact's current needsAttention and layer.
C8_DraggedAngleKeptForever ==
    mounted =>
        \A i \in DOMAIN positioned :
            LET id == positioned[i].contact.id
            IN  id \in DOMAIN lastDrag
                => /\ positioned[i].angle = lastDrag[id].angle
                   /\ RadiusFollowsAttention(positioned[i])

\* C8 amended: the dragged angle is used by every later layout until a later
\* handleAngleChange for the same id or until the graph is unmounted; after a
\* remount, and for a contact never dragged, the angle is the hashed default;
\* the radius follows the contact's current needsAttention and layer.
C8_DraggedAngleKeptWhileMounted ==
    mounted =>
        \A i \in DOMAIN positioned :
            LET id == positioned[i].contact.id
            IN  /\ (id \in DOMAIN lastDrag /\ lastDrag[id].live)
                    => positioned[i].angle = lastDrag[id].angle
                /\ (id \notin DOMAIN lastDrag \/ ~lastDrag[id].live)
                    => positioned[i].angle.seeded
                /\ RadiusFollowsAttention(positioned[i])

\* C8 witness: a contact dragged to angle 0 while it was not drifting has since
\* become drifting: it keeps angle 0 and sits on the edge of its effective ring.
C8_Witness ==
    /\ mounted
    /\ \E i \in DOMAIN positioned :
        LET id == positioned[i].contact.id
        IN  /\ id \in DOMAIN lastDrag
            /\ lastDrag[id].live
            /\ ~lastDrag[id].wasDrifting
            /\ positioned[i].contact.needsAttention
            /\ positioned[i].angle = AtanAngle(0)
            /\ positioned[i].radius.coef10 = 0

-----------------------------------------------------------------------------
(* Properties of the data layer (Spec) *)

\* a step in which a createConversation call ends with both the insert and
\* the contact update applied
LoggedStep ==
    /\ convMutation.step = "update"
    /\ convMutation'.status = "success"
    /\ convMutation'.updated

\* C9: when createConversation ends with the insert and the contact update both
\* applied, the parent contact's last_contact_at is the conversation's
\* occurred_at and no other contact's last_contact_at has changed.
C9_LogSetsLastContact ==
    /\ []( (convMutation.status = "success" /\ convMutation.updated)
           => (convMutation.contact_id \in DOMAIN contactsTable
               => contactsTable[convMutation.contact_id].last_contact_at
                    = convMutation.occurred_at) )
    /\ [][ LoggedStep
           => /\ DOMAIN contactsTable' = DOMAIN contactsTable
              /\ \A id \in DOMAIN contactsTable \ {convMutation.contact_id} :
                    contactsTable'[id].last_contact_at
                        = contactsTable[id].last_contact_at ]_vars

\* C9 witness: a conversation was logged for c1 while c2 keeps the different
\* timestamp of its own earlier conversation.
C9_Witness ==
    /\ convMutation.status = "success"
    /\ convMutation.updated
    /\ convMutation.contact_id = "c1"
    /\ DOMAIN contactsTable = {"c1", "c2"}
    /\ contactsTable["c1"].last_contact_at = convMutation.occurred_at
    /\ contactsTable["c2"].last_contact_at # NULL
    /\ contactsTable["c2"].last_contact_at # convMutation.occurred_at

\* the instant lies in the day that is running at instant t
SameDay(instant, t) == instant >= (t \div DayLen) * DayLen
                        /\ instant < ((t \div DayLen) + 1) * DayLen

\* a step in which the contacts query takes the result of a fetch
FetchedStep == contactsQuery' # contactsQuery /\ ~contactsQuery'.isInvalidated

ShownAsNeedingAttention(c, data) ==
    \A selectedLayer \in {"null", c.layer} :
        InSeq(c, filteredContacts(data, selectedLayer, TRUE))

HiddenFromNeedingAttention(c, data) ==
    \A selectedLayer \in {"null", c.layer} :
        ~InSeq(c, filteredContacts(data, selectedLayer, TRUE))

\* C10: a weekly contact with no logged conversation is in the needs-attention
\* filter in every fetched list; a successful log invalidates the contacts
\* query; and a fetch on the day of the logged occurred_at returns the contact
\* with needsAttention = false, outside the needs-attention filter.
C10_LogClearsAttention ==
    /\ [](\A k \in 1..Len(contactsQuery.data) :
            LET c == contactsQuery.data[k]
            IN  (c.contact_frequency = "weekly" /\ c.last_contact_at = NULL)
                => /\ c.needsAttention
                   /\ ShownAsNeedingAttention(c, contactsQuery.data))
    /\ [][ LoggedStep => contactsQuery'.isInvalidated ]_vars
    /\ [][ FetchedStep
           => \A k \in 1..Len(contactsQuery'.data) :
                LET c == contactsQuery'.data[k]
                IN  (c.contact_frequency = "weekly"
                        /\ c.id \in DOMAIN lastLog
                        /\ SameDay(lastLog[c.id].occurred_at, wallClock))
                    => /\ ~c.needsAttention
                       /\ HiddenFromNeedingAttention(c, contactsQuery'.data) ]_vars

\* C10 witness: a weekly contact that was shown as needing attention when its
\* conversation was logged has been fetched again on the day of occurred_at:
\* it is listed, not flagged, and absent from the needs-attention filter.
C10_Witness ==
    /\ contactsQuery.fetched
    /\ ~contactsQuery.isInvalidated
    /\ \E k \in 1..Len(contactsQuery.data) :
        LET c == contactsQuery.data[k]
        IN  /\ c.contact_frequency = "weekly"
            /\ c.id \in DOMAIN lastLog
            /\ lastLog[c.id].wasFlagged
            /\ c.last_contact_at = lastLog[c.id].occurred_at
            /\ SameDay(lastLog[c.id].occurred_at, contactsQuery.dataUpdatedAt)
            /\ ~c.needsAttention
            /\ InSeq(c, filteredContacts(contactsQuery.data, "null", FALSE))
            /\ HiddenFromNeedingAttention(c, contactsQuery.data)

-----------------------------------------------------------------------------
(* Properties of the opportunities and the action panel (SpecOpp) *)

\* C11: over the opportunity hooks' operations a completed opportunity never
\* becomes open again, a deleted opportunity never reappears, and the
\* transition open -> completed sets completed_at to the completion time.
C11_CompletedAndDeletedTerminal ==
    [][ /\ \A id \in DOMAIN oppTable \cap DOMAIN oppTable' :
            oppTable[id].is_completed => oppTable'[id].is_completed
        /\ \A id \in IssuedIds \ DOMAIN oppTable : id \notin DOMAIN oppTable'
        /\ \A id \in DOMAIN oppTable \cap DOMAIN oppTable' :
            (~oppTable[id].is_completed /\ oppTable'[id].is_completed)
                => oppTable'[id].completed_at = wallClock ]_vars

\* a step in which the opportunities query takes the result of a fetch
OppFetchedStep == oppQuery' # oppQuery /\ ~oppQuery'.isInvalidated

\* C12: needsAttention is not stored, and every Contact object handed to the UI
\* (the contacts query's, and the contact embedded in an opportunity) has
\* needsAttention equal to the classifier applied to the row at read time.
C12_NeedsAttentionRecomputed ==
    /\ [](\A id \in DOMAIN contactsTable :
            "needsAttention" \notin DOMAIN contactsTable[id])
    /\ [](\A k \in 1..Len(contactsQuery.data) :
            contactsQuery.data[k].needsAttention
                = calculateNeedsAttention(contactsQuery.data[k],
                                          contactsQuery.dataUpdatedAt))
    /\ [][ OppFetchedStep
           => \A k \in 1..Len(oppQuery'.data) :
                \A j \in 1..Len(oppQuery'.data[k].contact) :
                    LET c == oppQuery'.data[k].contact[j]
                    IN  c.needsAttention = calculateNeedsAttention(c, wallClock) ]_vars

-----------------------------------------------------------------------------
(* Further properties of the attention classifier (SpecAttention) *)

\* C13: for a contact_frequency tag outside the frequency table the classifier
\* uses a default target of 30 days with the same rule: with a non-null
\* last_contact_at it returns true iff the elapsed whole days are at least
\* 0.8 * 30, that is from day 24 on.
C13_UnknownTagDefaultTarget ==
    (clsPc = "fresh"
        /\ clsContact.last_contact_at # NULL
        /\ clsContact.contact_frequency \notin KnownTags)
    => (clsNeedsAttention
        <=> 5 * WholeDays(clsContact.last_contact_at, clsNow) >= 4 * 30)

-----------------------------------------------------------------------------
(* Further properties of the data layer (Spec) *)

\* the conversation row the call in flight inserts
InFlightRow ==
    [contact_id |-> convMutation.contact_id, user_id |-> user,
     occurred_at |-> convMutation.occurred_at]

\* C14: createConversation has no rollback. When the insert succeeded and the
\* contact update is not applied, the conversation row stays stored and every
\* last_contact_at keeps its value; when the insert fails or the user is not
\* authenticated, no contact update is issued and last_contact_at is unchanged.
C14_NoRollback ==
    /\ [][ (convMutation.step = "update" /\ convMutation'.step = "none"
                /\ ~convMutation'.updated)
           => /\ contactsTable' = contactsTable
              /\ conversationsTable' = conversationsTable
              /\ Len(conversationsTable) > 0
              /\ conversationsTable[Len(conversationsTable)].contact_id
                    = convMutation.contact_id
              /\ conversationsTable[Len(conversationsTable)].occurred_at
                    = convMutation.occurred_at ]_vars
    /\ [][ (convMutation.step = "insert" /\ convMutation' # convMutation
                /\ conversationsTable' = conversationsTable)
           => /\ convMutation'.step = "none"
              /\ convMutation'.status = "error"
              /\ contactsTable' = contactsTable ]_vars
    /\ [][ (convMutation.step # "update" /\ convMutation'.step = "update")
           => /\ convMutation.step = "insert"
              /\ conversationsTable' = Append(conversationsTable, InFlightRow) ]_vars
    /\ [](convMutation.status = "error"
            => convMutation.step = "none" /\ ~convMutation.updated)
    /\ [][ convMutation.step # "update" => contactsTable'
            = [id \in DOMAIN contactsTable' |->
                IF id \in DOMAIN contactsTable
                THEN [contactsTable'[id] EXCEPT
                        !.last_contact_at = contactsTable[id].last_contact_at]
                ELSE contactsTable'[id]] ]_vars

\* C14 witness: the call reported success, its conversation row is stored, and
\* the contact still has no last_contact_at because the update was not applied.
C14_Witness ==
    /\ convMutation.status = "success"
    /\ ~convMutation.updated
    /\ Len(conversationsTable) > 0
    /\ conversationsTable[Len(conversationsTable)].contact_id = convMutation.contact_id
    /\ conversationsTable[Len(conversationsTable)].occurred_at = convMutation.occurred_at
    /\ convMutation.contact_id \in DOMAIN contactsTable
    /\ contactsTable[convMutation.contact_id].last_contact_at = NULL

-----------------------------------------------------------------------------
(* Properties of the voice recorder (SpecRecorder) *)

\* no getUserMedia call and no stop event is still pending
RecorderQuiet ==
    \A inst \in 1..Len(recorders) :
        recorders[inst].starting = 0 /\ ~recorders[inst].stopping

AllTracksEnded == \A stream \in DOMAIN tracks : tracks[stream] = "ended"

\* C15: whenever recording has ended -- stopRecording or cancelRecording has
\* completed, or the dialog was closed or unmounted (overlay, Cancel button,
\* successful submit, selection cleared) -- every track obtained by
\* startRecording has been stopped.
C15_MicrophoneReleased ==
    (RecorderQuiet /\ (~DialogVisible \/ ~recorders[Current].isRecording))
        => AllTracksEnded

-----------------------------------------------------------------------------
(* Properties of the action panel (SpecPanel)                              *)

\* C16: dismissing and restoring are local to the mounted panel.  A step that
\* changes dismissedIds leaves the stored opportunities, the cached queries,
\* the hook calls and every other table as they were (no request is made), and
\* a step that mounts the panel starts from the empty set, so that every item
\* is active again.
C16_DismissalIsClientOnly ==
    /\ [][dismissedIds' # dismissedIds =>
            /\ oppTable' = oppTable
            /\ oppNextId' = oppNextId
            /\ oppQuery' = oppQuery
            /\ oppCall' = oppCall
            /\ UNCHANGED dataVars]_vars
    /\ [][(~panelMounted /\ panelMounted') =>
            /\ dismissedIds' = {}
            /\ activeItems' = PanelItems']_vars

\* an item was dismissed, the panel went away and came back: the set is empty
\* again while the opportunity behind the item is still stored and open
C16_Witness ==
    /\ panelMounted
    /\ toast = Notice("Action dismissed")
    /\ dismissedIds = {}
    /\ Len(activeItems) > 0
    /\ oppTable = PanelOpps

-----------------------------------------------------------------------------
(* Properties of the ring bands (SpecLayout)                               *)

\* the band [inner, outer] of a layer as the layout documents it: outer radii
\* 80/160/240/320/400, inner = the previous layer's outer radius + 15, 45 for vip
RingBand(layer) ==
    LET outer == CASE layer = "vip"        -> 80
                   [] layer = "inner"      -> 160
                   [] layer = "regular"    -> 240
                   [] layer = "occasional" -> 320
                   [] layer = "distant"    -> 400
        inner == CASE layer = "vip"        -> 45
                   [] layer = "inner"      -> 80 + 15
                   [] layer = "regular"    -> 160 + 15
                   [] layer = "occasional" -> 240 + 15
                   [] layer = "distant"    -> 320 + 15
    IN  [inner |-> inner, outer |-> outer]

\* the least and the greatest value, in tenths, of the radius expression
\* (const10 + coef10 * rand) / 10 as rand = abs(sin(.)) ranges over [0, 1]
RadiusMin10(radius) == IF radius.coef10 >= 0 THEN radius.const10
                       ELSE radius.const10 + radius.coef10

RadiusMax10(radius) == IF radius.coef10 >= 0 THEN radius.const10 + radius.coef10
                       ELSE radius.const10

-----------------------------------------------------------------------------
(* Properties of the edge functions (SpecEdge)                             *)

\* C18: without the API key no fetch to the gateway is ever made, and every
\* answered request other than an OPTIONS preflight, to any of the three
\* functions, has the status 500.
C18_MissingKeyIsFatal ==
    ~apiKeyConfigured =>
        /\ upstreamCalls = 0
        /\ edgeRequest.phase # "awaiting"
        /\ (edgeRequest.phase = "done" /\ edgeRequest.method # "OPTIONS")
                => edgeResponse.status = 500

-----------------------------------------------------------------------------
(* Properties of failing mutations (SpecPanel)                             *)

\* a step on which a mutation ends in error
MutationFails ==
    \/ convMutation' # convMutation /\ convMutation'.status = "error"
    \/ oppCall' # oppCall /\ oppCall'.status = "error"

\* C19: every failed mutation is caught where it is called (no handler's
\* promise rejects with nobody catching it) and is shown as a destructive
\* toast; the failing call is made once, and the step on which it fails
\* leaves the cached queries and the stored rows as they were.
C19_FailuresCaughtAndNotified ==
    /\ [](unhandledRejection = "")
    /\ [][MutationFails =>
            /\ toast'.variant = "destructive"
            /\ oppQuery' = oppQuery
            /\ contactsQuery' = contactsQuery
            /\ oppTable' = oppTable
            /\ contactsTable' = contactsTable
            /\ conversationsTable' = conversationsTable]_vars

-----------------------------------------------------------------------------
(* Properties of the contact reminders (SpecPanel)                         *)

\* the target day count the attention classifier uses for a tag of the table
ClassifierDays(tag) == FREQUENCY_OPTIONS[FindFrequency(tag)].days

\* C20: the reminder of a contact with one of the cadences weekly, biweekly,
\* monthly, quarterly, yearly is due exactly the classifier's target day count
\* for that cadence after last_contact_at.
C20_ReminderDaysMatchClassifier ==
    \A k \in 1..Len(PanelItems) :
        LET item == PanelItems[k] IN
        (item.type = "contact-reminder"
            /\ item.dueDate # NULL
            /\ item.contact[1].contact_frequency \in KnownTags)
        => item.dueDate = item.contact[1].last_contact_at
                + ClassifierDays(item.contact[1].contact_frequency) * DayLen

-----------------------------------------------------------------------------
(* Properties of seededRandom (SpecHash)                                   *)

\* 31 * h + c modulo 2^32 as a signed 32-bit integer, computed on 16-bit halves
Times31Plus(h, c) ==
    LET lo    == h % 65536
        hi    == (h \div 65536) % 65536
        low   == 31 * lo + c
        newLo == low % 65536
        newHi == (31 * hi + low \div 65536) % 65536
    IN  IF newHi >= 32768 THEN (newHi - 65536) * 65536 + newLo
        ELSE newHi * 65536 + newLo

\* the contact whose id is the seed
SeedContact == [id |-> hashSeed, layer |-> "regular", needsAttention |-> FALSE]

\* the hash starts at 0 and every pass of the loop replaces h by 31 * h + charCode
\* wrapped to a signed 32-bit integer
HashIteration ==
    /\ [](hashPc = "loop" /\ hashI = 0 => hashAcc = 0)
    /\ [][hashI' # hashI =>
            /\ hashI' = hashI + 1
            /\ hashAcc' = Times31Plus(hashAcc, charCodeAt(hashSeed[hashI']))]_vars

\* the value returned is abs(sin(.)) of the hash of the whole seed; the default
\* angle of a contact is drawn with the seed id, its radius with id + 'radius'
HashUse ==
    [](hashPc = "returned" =>
        /\ hashI = Len(hashSeed)
        /\ hashResult = seededRandom(hashSeed)
        /\ hashSeed \in HashIds =>
            /\ positionOf(SeedContact, EmptyMap).angle = SeededAngle(hashSeed)
            /\ positionOf(SeedContact, EmptyMap).radius.rand
                    = seededRandom(hashSeed \o RadiusSuffix)
            /\ hashSeed \o RadiusSuffix # hashSeed)

\* C21 as stated: the hash is the wrapped iteration h <- 31 * h + charCode, the
\* value returned lies in [0, 1) (so that the default angle lies in
\* [0, 2 pi)), and the radius draw uses the seed id + 'radius'.
C21_HashAndHalfOpenRange ==
    /\ HashIteration
    /\ HashUse
    /\ [](hashPc = "returned" => AbsSin(hashResult) \in {"0", "between 0 and 1"})

\* C21, amended: as above, with the value returned in the closed interval
\* [0, 1] (the default angle in [0, 2 pi]): the double abs(sin(h)) is 1 for
\* some 32-bit hashes.
C21_HashAndClosedRange ==
    /\ HashIteration
    /\ HashUse
    /\ [](hashPc = "returned" => AbsSin(hashResult) \in {"0", "between 0 and 1", "1"})

\* the call has returned for an id whose hash wrapped around and whose sine
\* rounds to 1
C21_Witness ==
    /\ hashPc = "returned"
    /\ hashSeed = OneId
    /\ hashAcc = 534483448
    /\ AbsSin(hashResult) = "1"

-----------------------------------------------------------------------------
(* Properties of logging and deleting conversations (Spec)                 *)

\* the stored conversations of a contact, oldest first
ConversationsOf(contact_id) ==
    SelectSeq(conversationsTable, LAMBDA row : row.contact_id = contact_id)

\* C22: createConversation writes occurred_at over last_contact_at whatever the
\* previous value is.  On every step that completes a creation (insert and
\* update applied) the contact's last_contact_at becomes the occurred_at of
\* the conversation just created, which is the newest row of the contact; so
\* after the creation last_contact_at is that row's occurred_at, also when an
\* older row of the contact has a later occurred_at.
C22_LastContactOverwritten ==
    /\ [][ (LoggedStep /\ convMutation.contact_id \in DOMAIN contactsTable) =>
              LET rows == ConversationsOf(convMutation.contact_id)
              IN  /\ Len(rows) > 0
                  /\ rows[Len(rows)].occurred_at = convMutation.occurred_at
                  /\ contactsTable'[convMutation.contact_id].last_contact_at
                        = rows[Len(rows)].occurred_at ]_vars
    /\ []( (convMutation.status = "success" /\ convMutation.updated
                /\ convMutation.contact_id \in DOMAIN contactsTable)
           => LET rows == ConversationsOf(convMutation.contact_id)
              IN  contactsTable[convMutation.contact_id].last_contact_at
                    = rows[Len(rows)].occurred_at )

\* two conversations were logged for a contact, the second with an earlier
\* occurred_at: last_contact_at is the second one's, below the maximum
C22_Witness ==
    /\ convMutation.status = "success"
    /\ convMutation.updated
    /\ convMutation.contact_id \in DOMAIN contactsTable
    /\ LET rows == ConversationsOf(convMutation.contact_id)
       IN  /\ Len(rows) = 2
           /\ rows[1].occurred_at > rows[2].occurred_at
           /\ contactsTable[convMutation.contact_id].last_contact_at
                = rows[2].occurred_at

\* a step of deleteConversation
DeleteStep == delMutation' # delMutation \/ conversationsTable' \in
                    {RemoveAt(conversationsTable, k) : k \in 1..Len(conversationsTable)}

\* C23: deleting a conversation leaves every contact row, last_contact_at
\* included, as it was; of the cached queries only ['conversations', contactId]
\* is invalidated, the contacts query keeps its data and is not invalidated;
\* so what a fetch of the contacts returns, needsAttention included, is the
\* same before and after the deletion.
C23_DeleteLeavesLastContact ==
    [][ DeleteStep =>
          /\ contactsTable' = contactsTable
          /\ contactsQuery' = contactsQuery
          /\ oppQuery' = oppQuery
          /\ conversationsStale' \in {conversationsStale,
                                      conversationsStale \cup {delMutation'.contact_id}}
          /\ delMutation'.status = "success"
                => delMutation'.contact_id \in conversationsStale'
          /\ useContactsQueryFn(contactsTable', user', wallClock')
                = useContactsQueryFn(contactsTable, user, wallClock) ]_vars

\* the only conversation of a contact, the one that set its last_contact_at,
\* has been deleted: last_contact_at still holds its date and the contact is
\* still cached as not needing attention
C23_Witness ==
    /\ delMutation.status = "success"
    /\ delMutation.deleted
    /\ delMutation.contact_id = "c1"
    /\ ConversationsOf("c1") = <<>>
    /\ contactsTable["c1"].last_contact_at # NULL
    /\ "c1" \in DOMAIN lastLog
    /\ contactsTable["c1"].last_contact_at = lastLog["c1"].occurred_at
    /\ \E c \in Cached("c1") : ~c.needsAttention

-----------------------------------------------------------------------------
(* Further properties of the opportunity hooks (SpecOpp)                   *)

\* C24: in every state reached through the hooks, a stored opportunity is
\* completed exactly when its completed_at is set.
C24_CompletedIffCompletedAt ==
    \A id \in DOMAIN oppTable :
        oppTable[id].is_completed <=> oppTable[id].completed_at # NULL

-----------------------------------------------------------------------------
(* Properties of the create hooks together (SpecCreate) *)

\* the rows a step adds, of the three tables
NewRows ==
    {contactsTable'[id] : id \in DOMAIN contactsTable' \ DOMAIN contactsTable}
    \cup {conversationsTable'[k] : k \in (Len(conversationsTable) + 1)..Len(conversationsTable')}
    \cup {oppTable'[id] : id \in DOMAIN oppTable' \ DOMAIN oppTable}

\* C25: every row a create hook inserts (contact, conversation, opportunity, the sample
\* opportunities) carries the user_id of the user authenticated at that moment, whatever
\* user_id the input supplied; with no user authenticated the hook fails before any
\* insert: no table changes, and a call made then settles as an error.
C25_InsertsCarryAuthenticatedUser ==
    [][/\ \A row \in NewRows : user # NoUser /\ row.user_id = user
       /\ (user = NoUser) =>
            /\ UNCHANGED <<contactsTable, conversationsTable, oppTable>>
            /\ (oppCall' # oppCall) => oppCall'.status = "error"
            /\ (convMutation.status # "pending" /\ convMutation' # convMutation)
                    => convMutation'.status = "error"]_vars

\* rows of all three tables were inserted for the signed-in user, and a call made
\* signed out has failed
C25_Witness ==
    /\ DOMAIN contactsTable # {}
    /\ Len(conversationsTable) > 0
    /\ DOMAIN oppTable # {}
    /\ user = NoUser
    /\ oppCall.status = "error"
    /\ convMutation.status = "error"

-----------------------------------------------------------------------------
(* The sections of the action panel (SpecPanel) *)

\* C26: every active item is displayed in exactly one of the two sections: the
\* 'Today & Overdue' list and the 'Upcoming' list are disjoint and together hold
\* every active item, the items without a due date included.
C26_ActiveItemsInOneSection ==
    /\ IdsOf(todayItems) \cap IdsOf(upcomingItems) = {}
    /\ IdsOf(todayItems) \cup IdsOf(upcomingItems) = IdsOf(activeItems)

-----------------------------------------------------------------------------
(* Done on an action item (SpecPanel) *)

\* the step in which an opportunity becomes completed
Completes(id) ==
    /\ id \in DOMAIN oppTable /\ id \in DOMAIN oppTable'
    /\ ~oppTable[id].is_completed
    /\ oppTable'[id].is_completed

\* the conversation handleComplete logged last is for this contact, dated now
LoggedFor(contact_id) ==
    /\ convMutation.status = "success"
    /\ convMutation.contact_id = contact_id
    /\ Len(conversationsTable) > 0
    /\ conversationsTable[Len(conversationsTable)].contact_id = contact_id
    /\ conversationsTable[Len(conversationsTable)].occurred_at = wallClock

-----------------------------------------------------------------------------
(* A press-release gesture on a contact node (SpecNode) *)

\* the angle is the direction from the centre of the parent's rectangle to the mouse
AngleOfPointer(angle) ==
    LET dx == pointer'[1] - (ParentRect.left + ParentRect.width \div 2)
        dy == pointer'[2] - (ParentRect.top + ParentRect.height \div 2)
    IN  IF dx = 0 /\ dy = 0 THEN angle = <<0, 1>>
        ELSE /\ angle[2] * dy - angle[1] * dx = 0
             /\ angle[2] * dx + angle[1] * dy > 0

\* C28: each press-release gesture on a node has exactly one of two outcomes. A mouse
\* that never went more than 5px away on an axis: onClick fires and onAngleChange is
\* never called. A mouse that did: onAngleChange was called, each time with the angle of
\* the mouse around the graph centre and the node kept on its radius, and the click that
\* follows does not fire onClick. After mouseup nothing listens on document.
C28_ClickOrDrag ==
    /\ [](/\ (nodePc = "idle" /\ startPos # NoPos) =>
                IF maxDelta <= 5
                THEN onClickCalls = 1 /\ angleCalls = <<>>
                ELSE onClickCalls = 0 /\ angleCalls # <<>>
          /\ (nodePc # "pressed") => docListeners = {})
    /\ [][Len(angleCalls') > Len(angleCalls) =>
            /\ AngleOfPointer(angleCalls'[Len(angleCalls')])
            /\ currentPos' = [angle |-> angleCalls'[Len(angleCalls')],
                              radius |-> NodeRadius]]_vars

\* a gesture that moved 5px and ended in onClick
C28_Witness ==
    /\ nodePc = "idle"
    /\ maxDelta = 5
    /\ onClickCalls = 1
    /\ angleCalls = <<>>

-----------------------------------------------------------------------------
(* stopRecording (SpecStop) *)

Resolved(inst) ==
    inst <= Len(recorders) /\ recorders[inst].promise \in {"null", "text"}

Pending(inst) ==
    inst <= Len(recorders) /\ recorders[inst].promise = "pending"

\* C29: stopRecording always terminates: on every path the promise it returned
\* eventually resolves with the transcription or null, isRecording and isTranscribing
\* are both false once it has, and the two flags are never true together.
C29_StopRecordingTerminates ==
    /\ \A inst \in 1..MaxMounts : Pending(inst) ~> Resolved(inst)
    /\ [][\A inst \in 1..Len(recorders) :
            (recorders[inst].promise = "pending" /\ Resolved(inst)')
                => (~recorders'[inst].isRecording /\ ~recorders'[inst].isTranscribing)]_vars
    /\ [](\A inst \in 1..Len(recorders) :
            ~(recorders[inst].isRecording /\ recorders[inst].isTranscribing))

-----------------------------------------------------------------------------
(* The contact-search chat (SpecChat) *)

\* the user messages of the conversation
UserMessages == SelectSeq(messages, LAMBDA m : m.role = "user")

\* C30: at most one search request is in flight. handleSend does nothing while
\* isLoading is true or the trimmed input is empty; an accepted send appends exactly one
\* user message, and the settling of its request appends exactly one assistant message
\* right after it (the result text or the fixed error text) and resets isLoading,
\* whether the request succeeded or failed.
C30_OneSearchInFlight ==
    /\ [](/\ searchInFlight <= 1
          /\ isLoading <=> (searchInFlight = 1)
          /\ Len(messages) = 1 + 2 * Len(UserMessages) - searchInFlight
          /\ \A k \in 2..Len(messages) :
                messages[k].role = IF k % 2 = 0 THEN "user" ELSE "assistant")
    /\ [][/\ (sendCalls' # sendCalls /\ (isLoading \/ trim(input) = <<>>))
                => UNCHANGED <<messages, input, isLoading, searchInFlight>>
          /\ (sendCalls' # sendCalls /\ ~isLoading /\ trim(input) # <<>>)
                => /\ messages' = Append(messages,
                                         [role |-> "user", content |-> trim(input)])
                   /\ isLoading' /\ searchInFlight' = 1
          /\ (searchInFlight' < searchInFlight)
                => /\ ~isLoading'
                   /\ Len(messages') = Len(messages) + 1
                   /\ SubSeq(messages', 1, Len(messages)) = messages
                   /\ messages[Len(messages)].role = "user"
                   /\ messages'[Len(messages')].role = "assistant"
                   /\ messages'[Len(messages')].content
                        \in {assistantContent(result) : result \in SearchResults}]_vars

\* a send was refused while a request was in flight, the request then failed, and a
\* second send was accepted and answered
C30_Witness ==
    /\ sendCalls = 3
    /\ Len(messages) = 5
    /\ messages[3].content = ErrorText
    /\ messages[4].content = <<"b">>
    /\ messages[5].content = FoundText(2)
    /\ ~isLoading

=============================================================================
